---- MODULE Spec2Model ----
(***************************************************************************)
(* Model of the hyperswitch-cdk deployment: the SSM parameter paths built  *)
(* by ParamStore, the stacks of bin/hs-cdk.ts with their addDependency     *)
(* edges and SSM imports/exports, and the migration Lambda handler         *)
(* (lib/aws/migrations/index.ts) driven by CloudFormation lifecycle events *)
(* or invoked by hand.                                                     *)
(***************************************************************************)
EXTENDS Integers, Sequences, FiniteSets, TLC

VARIABLES
  config,       \* the Config the app was synthesised with (subnet type, router version)
  stackStatus,  \* per stack: "pending", "synthError", "deploying", "cleanup", "done", "failed"
  registry,     \* SSM parameter names that exist
  resolveLog,   \* every SSM read a stack deployment made: [stack, path, found]
  trigger,      \* the MigrationTriggerV2 custom resource as CloudFormation knows it
  deploys,      \* number of `cdk deploy --all` runs started
  db,           \* __diesel_schema_migrations: how often each migration was applied
  inv,          \* the Lambda invocation in flight (or the last one, or none)
  orphan,       \* the invocation a cancelled deployment left running (or none)
  paramStores,  \* the ParamStore objects constructed so far: [kind, args, paths]
  importedVpc   \* the last ImportedVpc.FromSSM call: its props, reads and attributes

vars == <<config, stackStatus, registry, resolveLog, trigger, deploys, db, inv,
          orphan, paramStores, importedVpc>>

deployVars == <<config, stackStatus, registry, resolveLog, trigger, deploys>>

libVars == <<paramStores, importedVpc>>

(***************************************************************************)
(* Bounds of the model.                                                    *)
(***************************************************************************)
MaxVersion == 2   \* router versions 1..MaxVersion; version v ships migrations 1..v
MaxDeploys == 2   \* `cdk deploy --all` runs
MaxParams == 2    \* segments in one ParamStore.create call
MaxStores == 2    \* ParamStore objects compared with one another
MaxListLen == 3   \* elements of a stored StringList parameter, and the largest maxAzs

Undefined == "undefined"

(***************************************************************************)
(* lib/aws/constructs/param-store.ts                                       *)
(***************************************************************************)
RECURSIVE join(_, _)
join(keys, sep) ==
  IF keys = <<>> THEN ""
  ELSE IF Len(keys) = 1 THEN keys[1]
  ELSE keys[1] \o sep \o join(Tail(keys), sep)

PARAM_BASEKeepingEmptyKeys(keys) == "/" \o join(keys, "/")

RECURSIVE keysUpToEmptyKey(_)
keysUpToEmptyKey(keys) ==
  IF keys = <<>> \/ Head(keys) = "" THEN <<>>
  ELSE <<Head(keys)>> \o keysUpToEmptyKey(Tail(keys))

PARAM_BASEStoppingAtEmptyKey(keys) == "/" \o join(keysUpToEmptyKey(keys), "/")

\* '/' + [...keys].filter((key) => !!key).join('/')
PARAM_BASE(keys) == "/" \o join(SelectSeq(keys, LAMBDA key: key # ""), "/")

createWithoutNamespace(params) == PARAM_BASE(params)

\* ParamStore.create(...params) == new ParamStore("ashanti", ...params).value
create(params) == PARAM_BASE(<<"ashanti">> \o params)

RdsInstanceParamStore(dbName) ==
  [ SSM_RDS_ENDPOINT_PARAM   |-> create(<<dbName, "rds", "endpoint">>),
    SSM_RDS_SECRET_ARN_PARAM |-> create(<<dbName, "rds", "secret-arn">>),
    SSM_RDS_SG_ID_PARAM      |-> create(<<dbName, "rds", "sg-id">>) ]

ElasticacheParamStore(elasticCacheName) ==
  [ SSM_ELASTICACHE_ENDPOINT_PARAM |-> create(<<elasticCacheName, "elasticache", "endpoint">>),
    SSM_ELASTICACHE_SG_ID_PARAM    |-> create(<<elasticCacheName, "elasticache", "sg-id">>) ]

LambdaParamStore(name, functionName) ==
  [ SSM_FUNCTION_ARN_PARAM |-> create(<<name, functionName, "function-arn">>) ]

EcrParamStore(repositoryName) ==
  [ SSM_ECR_URI_PARAM  |-> create(<<"ecr", repositoryName, "uri">>),
    SSM_ECR_ARN_PARAM  |-> create(<<"ecr", repositoryName, "arn">>),
    SSM_ECR_NAME_PARAM |-> create(<<"ecr", repositoryName, "name">>) ]

VpcParamStore ==
  [ SSM_VPC_ID_PARAM   |-> create(<<"vpc", "id">>),
    SSM_VPC_CIDR_PARAM |-> create(<<"vpc", "cidr">>),
    SSM_VPC_AZS_PARAM  |-> create(<<"vpc", "azs">>),
    SSM_VPC_PUBLIC_SUBNET_IDS_PARAM               |-> create(<<"vpc", "public", "subnet", "ids">>),
    SSM_VPC_PUBLIC_SUBNET_ROUTE_TABLE_IDS_PARAM   |-> create(<<"vpc", "public", "subnet", "route-table", "ids">>),
    SSM_VPC_PUBLIC_SUBNET_IPV4_CIDR_BLOCKS_PARAM  |-> create(<<"vpc", "public", "subnet", "cidr-blocks">>),
    SSM_VPC_PUBLIC_SUBNET_AZS_PARAM               |-> create(<<"vpc", "public", "subnet", "azs">>),
    SSM_VPC_PRIVATE_SUBNET_IDS_PARAM              |-> create(<<"vpc", "private", "subnet", "ids">>),
    SSM_VPC_PRIVATE_SUBNET_ROUTE_TABLE_IDS_PARAM  |-> create(<<"vpc", "private", "subnet", "route-table", "ids">>),
    SSM_VPC_PRIVATE_SUBNET_IPV4_CIDR_BLOCKS_PARAM |-> create(<<"vpc", "private", "subnet", "cidr-blocks">>),
    SSM_VPC_PRIVATE_SUBNET_AZS_PARAM              |-> create(<<"vpc", "private", "subnet", "azs">>),
    SSM_VPC_ISOLATED_SUBNET_IDS_PARAM              |-> create(<<"vpc", "isolated", "subnet", "ids">>),
    SSM_VPC_ISOLATED_SUBNET_ROUTE_TABLE_IDS_PARAM  |-> create(<<"vpc", "isolated", "subnet", "route-table", "ids">>),
    SSM_VPC_ISOLATED_SUBNET_IPV4_CIDR_BLOCKS_PARAM |-> create(<<"vpc", "isolated", "subnet", "cidr-blocks">>),
    SSM_VPC_ISOLATED_SUBNET_AZS_PARAM              |-> create(<<"vpc", "isolated", "subnet", "azs">>),
    SSM_VPC_VPN_GATEWAY_ID_PARAM                |-> create(<<"vpc", "vpn", "gateway", "id">>),
    SSM_VPC_TRANSIT_GATEWAY_ATTACHMENT_ID_PARAM |-> create(<<"vpc", "transit-gateway", "attachment", "id">>) ]

hyperswitchRds == RdsInstanceParamStore("hyperswitch")

hyperswitchElasticache == ElasticacheParamStore("hyperswitch")

\* `migration${slug ? `-${slug}` : ''}`
hyperswitchMigration(slug) ==
  LambdaParamStore("hyperswitch", "migration" \o (IF slug # "" THEN "-" \o slug ELSE ""))

(***************************************************************************)
(* lib/aws/constructs/imported-vpc.ts                                      *)
(***************************************************************************)
\* the destructuring defaults of FromSSM: an include flag left out is true
includeFlag(props, flag) == IF flag \in DOMAIN props THEN props[flag] ELSE TRUE

\* valueForStringParameter / valueForStringListParameter: no read unless included
valueForParameterAlwaysReading(include, parameterName) == {parameterName}

valueForParameter(include, parameterName) == IF include THEN {parameterName} ELSE {}

\* The SSM parameter names ImportedVpc.FromSSM reads for the given props.
FromSSM(props) ==
  {VpcParamStore.SSM_VPC_ID_PARAM, VpcParamStore.SSM_VPC_AZS_PARAM}
  \cup valueForParameter(includeFlag(props, "includeVpcCidr"), VpcParamStore.SSM_VPC_CIDR_PARAM)
  \cup valueForParameter(includeFlag(props, "includePrivateSubnets"), VpcParamStore.SSM_VPC_PRIVATE_SUBNET_IDS_PARAM)
  \cup valueForParameter(includeFlag(props, "includePrivateSubnetRouteTables"), VpcParamStore.SSM_VPC_PRIVATE_SUBNET_ROUTE_TABLE_IDS_PARAM)
  \cup valueForParameter(includeFlag(props, "includePrivateSubnetCidrs"), VpcParamStore.SSM_VPC_PRIVATE_SUBNET_IPV4_CIDR_BLOCKS_PARAM)
  \cup valueForParameter(includeFlag(props, "includePublicSubnets"), VpcParamStore.SSM_VPC_PUBLIC_SUBNET_IDS_PARAM)
  \cup valueForParameter(includeFlag(props, "includePublicSubnetRouteTables"), VpcParamStore.SSM_VPC_PUBLIC_SUBNET_ROUTE_TABLE_IDS_PARAM)
  \cup valueForParameter(includeFlag(props, "includePublicSubnetCidrs"), VpcParamStore.SSM_VPC_PUBLIC_SUBNET_IPV4_CIDR_BLOCKS_PARAM)
  \cup valueForParameter(includeFlag(props, "includeIsolatedSubnets"), VpcParamStore.SSM_VPC_ISOLATED_SUBNET_IDS_PARAM)
  \cup valueForParameter(includeFlag(props, "includeIsolatedSubnetRouteTables"), VpcParamStore.SSM_VPC_ISOLATED_SUBNET_ROUTE_TABLE_IDS_PARAM)
  \cup valueForParameter(includeFlag(props, "includeIsolatedSubnetCidrs"), VpcParamStore.SSM_VPC_ISOLATED_SUBNET_IPV4_CIDR_BLOCKS_PARAM)

\* the props every stack of this app passes to ImportedVpc.FromSSM
vpcImportProps ==
  [ maxAzs                           |-> 2,
    includePrivateSubnets            |-> FALSE,
    includePrivateSubnetRouteTables  |-> FALSE,
    includePrivateSubnetCidrs        |-> FALSE,
    includeIsolatedSubnets           |-> FALSE,
    includeIsolatedSubnetRouteTables |-> FALSE,
    includeIsolatedSubnetCidrs       |-> FALSE ]

(***************************************************************************)
(* bin/hs-cdk.ts and the stack constructors                                *)
(***************************************************************************)
Stacks == {"infra", "database", "elasticache", "migration", "app"}

SubnetTypes == {"PUBLIC", "PRIVATE_WITH_EGRESS", "PRIVATE_ISOLATED"}

Versions == 1..MaxVersion

\* addDependency edges of the entry point, <<consumer, producer>>
DependenciesWithoutAppOnMigration ==
  { <<"database", "infra">>, <<"elasticache", "infra">>, <<"migration", "database">>,
    <<"app", "infra">>, <<"app", "database">>, <<"app", "elasticache">> }

DependenciesWithoutAppOnElasticache ==
  { <<"database", "infra">>, <<"elasticache", "infra">>, <<"migration", "database">>,
    <<"app", "infra">>, <<"app", "database">>, <<"app", "migration">> }

DependenciesWithoutMigrationOnDatabase ==
  { <<"database", "infra">>, <<"elasticache", "infra">>,
    <<"app", "infra">>, <<"app", "database">>, <<"app", "elasticache">>,
    <<"app", "migration">> }

Dependencies ==
  { <<"database", "infra">>, <<"elasticache", "infra">>, <<"migration", "database">>,
    <<"app", "infra">>, <<"app", "database">>, <<"app", "elasticache">>,
    <<"app", "migration">> }

DependsOn(s) == {e[2] : e \in {d \in Dependencies : d[1] = s}}

\* producers reachable over one or more depends-on edges
RECURSIVE Reach(_, _)
Reach(frontier, seen) ==
  LET next == UNION {DependsOn(s) : s \in frontier} \ seen
  IN  IF next = {} THEN seen ELSE Reach(next, seen \cup next)

Upstream(s) == Reach({s}, {})

\* useVpc: config.rds.subnetType !== ec2.SubnetType.PUBLIC
useVpc(cfg) == cfg.subnetType # "PUBLIC"

repositoryName == "juspaydotin/hyperswitch-migration2"

\* the SSM parameters each stack creates (new ssm.StringParameter)
Publishes(s) ==
  CASE s = "database" ->
         { hyperswitchRds.SSM_RDS_ENDPOINT_PARAM,
           hyperswitchRds.SSM_RDS_SECRET_ARN_PARAM,
           hyperswitchRds.SSM_RDS_SG_ID_PARAM }
    [] s = "elasticache" ->
         { hyperswitchElasticache.SSM_ELASTICACHE_ENDPOINT_PARAM,
           hyperswitchElasticache.SSM_ELASTICACHE_SG_ID_PARAM }
    [] s = "migration" ->
         { EcrParamStore(repositoryName).SSM_ECR_URI_PARAM,
           EcrParamStore(repositoryName).SSM_ECR_ARN_PARAM,
           EcrParamStore(repositoryName).SSM_ECR_NAME_PARAM,
           hyperswitchMigration("tmp1").SSM_FUNCTION_ARN_PARAM }
    [] OTHER -> {}

\* the order in which the entry point constructs the stacks
ConstructionOrder == <<"infra", "database", "elasticache", "migration", "app">>

\* the include flag of ImportedVpc.FromSSM that imports the subnet ids of a subnet type
subnetFlag(subnetType) ==
  CASE subnetType = "PUBLIC" -> "includePublicSubnets"
    [] subnetType = "PRIVATE_WITH_EGRESS" -> "includePrivateSubnets"
    [] OTHER -> "includeIsolatedSubnets"

\* the subnet types a stack's constructor passes as vpcSubnets with its imported VPC
vpcSubnets(s, cfg) ==
  CASE s = "database" -> {cfg.subnetType}
    [] s = "migration" -> IF useVpc(cfg) THEN {cfg.subnetType} ELSE {}
    [] s = "app" -> {"PUBLIC"}
    [] OTHER -> {}

\* vpc.selectSubnets({subnetType}) on the VPC that FromSSM(props) returned throws
\* "There are no '<type>' subnet groups in this VPC" when the subnet ids of the
\* type were not imported
selectSubnetsThrows(props, subnetType) == ~includeFlag(props, subnetFlag(subnetType))

\* the constructor of the stack throws while the app is synthesized
constructorThrows(s, cfg) ==
  \E subnetType \in vpcSubnets(s, cfg) : selectSubnetsThrows(vpcImportProps, subnetType)

\* every stack of the entry point could be constructed
Synthesizes(cfg) == \A s \in Stacks : ~constructorThrows(s, cfg)

\* the SSM parameters each stack's constructor reads (valueForStringParameter,
\* valueForTypedListParameter), resolved by CloudFormation when the stack is applied
Resolves(s, cfg) ==
  CASE s = "migration" ->
         (IF useVpc(cfg) THEN FromSSM(vpcImportProps) ELSE {})
         \cup { hyperswitchRds.SSM_RDS_SECRET_ARN_PARAM }
         \cup (IF useVpc(cfg) THEN { hyperswitchRds.SSM_RDS_SG_ID_PARAM } ELSE {})
    [] s = "app" ->
         FromSSM(vpcImportProps)
         \cup { hyperswitchRds.SSM_RDS_ENDPOINT_PARAM,
                hyperswitchRds.SSM_RDS_SG_ID_PARAM,
                hyperswitchRds.SSM_RDS_SECRET_ARN_PARAM,
                hyperswitchElasticache.SSM_ELASTICACHE_ENDPOINT_PARAM,
                hyperswitchElasticache.SSM_ELASTICACHE_SG_ID_PARAM }
    [] OTHER -> FromSSM(vpcImportProps)

(***************************************************************************)
(* lib/aws/migrations/index.ts: the Lambda handler                         *)
(***************************************************************************)
ExecTimeoutMinutes == 10     \* execSync timeout: 600000 ms
LambdaTimeoutMinutes == 15   \* cdk.Duration.minutes(15)

RequestTypes == {"Create", "Update", "Delete", "Direct"}

LogStreams == {"2026/11/01/[$LATEST]a", "2026/11/01/[$LATEST]b"}

\* minutes the GetSecretValue call and the DNS lookup may take when they return
SecretLatencies == {0, 6}

\* a non-zero exit status of diesel
ExitStatuses == {1, 101}

\* text captured from the tool, as sequences of chunks
StdoutTexts == {<<>>, <<"Running migration">>}

StderrTexts == {<<>>, <<"relation already exists">>}

EmptyRecord == [k \in {} |-> ""]

SecretFields == {"host", "port", "username", "password", "dbname"}

\* the secret RDS generates: username, password, host, port, dbname
fullSecret == [host |-> "db", port |-> 5432, username |-> "u", password |-> "p", dbname |-> "hs"]

\* a second database, whose values hold the characters the URL uses as separators
otherSecret ==
  [ host |-> "db-2.internal", port |-> 6432, username |-> "admin",
    password |-> "p@ss/w:rd", dbname |-> "hyperswitch_db" ]

\* secrets with all five fields: fullSecret, otherSecret, and fullSecret with one
\* field taken from otherSecret
FullSecrets ==
  {fullSecret, otherSecret}
  \cup {[fullSecret EXCEPT ![g] = otherSecret[g]] : g \in SecretFields}

SecretRecords ==
  FullSecrets \cup {[f \in SecretFields \ {g} |-> fullSecret[f]] : g \in SecretFields}

\* what GetSecretValue finds: no secret (the call rejects), an empty SecretString,
\* a SecretString that is not JSON, or a JSON object
SecretStates ==
  {[kind |-> k, value |-> fullSecret] : k \in {"missing", "empty", "malformed"}}
  \cup {[kind |-> "json", value |-> r] : r \in SecretRecords}

\* process.env of the function; "" stands for an unset (or empty) variable
Envs ==
  [DB_SECRET_ARN : {"", "arn:secret"}, HYPERSWITCH_VERSION : {"", "v1.119.0"}]

\* the container image: /opt/hyperswitch/migrations, diesel.toml, and the version
\* whose migrations were downloaded
Images == [migrations : BOOLEAN, dieselToml : BOOLEAN, version : Versions]

\* migration directories shipped with a version
MigrationDirs(version) == 1..version

NoResponse == [PhysicalResourceId |-> Undefined, Data |-> EmptyRecord]

NoExit == [cause |-> "none", signaled |-> FALSE, status |-> 0]

IdleInv ==
  [ pc |-> "idle", source |-> "none",
    event |-> [RequestType |-> "Delete", PhysicalResourceId |-> Undefined],
    context |-> [logStreamName |-> Undefined],
    env |-> [DB_SECRET_ARN |-> "", HYPERSWITCH_VERSION |-> ""],
    secret |-> [kind |-> "missing", value |-> fullSecret],
    image |-> [migrations |-> TRUE, dieselToml |-> TRUE, version |-> 1],
    dbBefore |-> [m \in Versions |-> 0],
    elapsed |-> 0, credReads |-> 0, toolRuns |-> 0,
    databaseUrl |-> "", results |-> <<>>, exit |-> NoExit,
    stdout |-> <<>>, stderr |-> <<>>,
    outcome |-> "none", response |-> NoResponse, error |-> <<>>, killed |-> FALSE ]

\* the promise of the handler resolves with `response`
Resolve(i, response) ==
  [i EXCEPT !.pc = "done", !.outcome = "Succeeded", !.response = response]

\* the promise of the handler rejects with Error(message)
Throw(i, message) ==
  [i EXCEPT !.pc = "done", !.outcome = "Failed", !.error = message]

field(record, name) == IF name \in DOMAIN record THEN record[name] ELSE Undefined

\* getDatabaseCredentials, once secretsManager.send has settled
getDatabaseCredentials(secret) ==
  IF secret.kind = "missing" THEN
    [threw |-> TRUE, error |-> <<"ResourceNotFoundException">>, creds |-> EmptyRecord]
  ELSE IF secret.kind = "empty" THEN
    [threw |-> TRUE, error |-> <<"Secret value is empty">>, creds |-> EmptyRecord]
  ELSE IF secret.kind = "malformed" THEN
    [threw |-> TRUE, error |-> <<"SyntaxError">>, creds |-> EmptyRecord]
  ELSE
    LET credentials == secret.value IN
    [ threw |-> FALSE, error |-> <<>>,
      creds |-> [ host     |-> field(credentials, "host"),
                  port     |-> IF "port" \in DOMAIN credentials /\ credentials.port # 0
                               THEN ToString(credentials.port) ELSE ToString(5432),
                  username |-> field(credentials, "username"),
                  password |-> field(credentials, "password"),
                  dbname   |-> field(credentials, "dbname") ] ]

databaseUrlHostFirst(dbCreds) ==
  "postgresql://" \o dbCreds.host \o ":" \o dbCreds.port \o "@"
    \o dbCreds.username \o ":" \o dbCreds.password \o "/" \o dbCreds.dbname

\* `postgresql://${username}:${password}@${host}:${port}/${dbname}`
databaseUrl(dbCreds) ==
  "postgresql://" \o dbCreds.username \o ":" \o dbCreds.password \o "@"
    \o dbCreds.host \o ":" \o dbCreds.port \o "/" \o dbCreds.dbname

\* the tail of performMigrations: what it does with the MigrationResult
performMigrationsAlwaysReturning(i, result) ==
  Resolve([i EXCEPT !.results = Append(@, result)],
          [ PhysicalResourceId |-> i.context.logStreamName,
            Data |-> [message |-> "Migrations completed successfully"] ])

performMigrationsRetrying(i, result) ==
  LET j == [i EXCEPT !.results = Append(@, result)] IN
  IF result.success THEN
    Resolve(j, [ PhysicalResourceId |-> i.context.logStreamName,
                 Data |-> [message |-> "Migrations completed successfully"] ])
  ELSE IF i.toolRuns = 1 /\ result.metadata # EmptyRecord
       THEN [j EXCEPT !.pc = "execSync", !.toolRuns = @ + 1]
       ELSE Throw(j, <<"Migration failed: ">> \o result.output)

performMigrationsWithoutMetadata(i, result) ==
  LET j == [i EXCEPT !.results = Append(@, result)] IN
  IF result.success THEN
    Resolve(j, [ PhysicalResourceId |-> i.context.logStreamName,
                 Data |-> [ message |-> "Migrations completed successfully",
                            version |-> IF i.env.HYPERSWITCH_VERSION # ""
                                        THEN i.env.HYPERSWITCH_VERSION ELSE "unknown",
                            output  |-> result.output ] ])
  ELSE Throw(j, <<"Migration failed: ">> \o result.output)

performMigrationsFinish(i, result) ==
  LET j == [i EXCEPT !.results = Append(@, result)]
      data == [ message |-> "Migrations completed successfully",
                version |-> IF i.env.HYPERSWITCH_VERSION # ""
                            THEN i.env.HYPERSWITCH_VERSION ELSE "unknown",
                output  |-> result.output ]
  IN
  IF result.success THEN
    Resolve(j, [ PhysicalResourceId |-> i.context.logStreamName,
                 Data |-> [ k \in DOMAIN data \cup DOMAIN result.metadata |->
                              IF k \in DOMAIN result.metadata
                              THEN result.metadata[k] ELSE data[k] ] ])
  ELSE Throw(j, <<"Migration failed: ">> \o result.output)

runMigrationsWithoutAssetChecks(i) == [i EXCEPT !.pc = "execSync", !.toolRuns = @ + 1]

\* runMigrations up to execSync: the asset checks and the spawn of diesel
runMigrations(i) ==
  IF ~i.image.migrations THEN
    performMigrationsFinish(i, [ success |-> FALSE,
                                 output |-> <<"Migrations directory not found">>,
                                 metadata |-> EmptyRecord ])
  ELSE IF ~i.image.dieselToml THEN
    performMigrationsFinish(i, [ success |-> FALSE,
                                 output |-> <<"diesel.toml not found">>,
                                 metadata |-> EmptyRecord ])
  ELSE [i EXCEPT !.pc = "execSync", !.toolRuns = @ + 1]

\* error.stdout?.toString() || "" + "\n" + (error.stderr?.toString() || "")
\* (+ binds tighter than ||)
errorOutput(stdout, stderr) ==
  IF stdout # <<>> THEN stdout ELSE <<>> \o <<"\n">> \o stderr

runMigrationsReturnStatusOnly(i, exit, stdout, stderr) ==
  LET migrationCount == Cardinality(MigrationDirs(i.image.version)) IN
  IF exit.status = 0 THEN
    [ success |-> TRUE, output |-> stdout,
      metadata |-> [migration_count |-> migrationCount, return_code |-> 0] ]
  ELSE
    [ success |-> FALSE, output |-> errorOutput(stdout, stderr),
      metadata |-> [migration_count |-> migrationCount, return_code |-> exit.status] ]

runMigrationsReturnSucceedingOnSignal(i, exit, stdout, stderr) ==
  LET migrationCount == Cardinality(MigrationDirs(i.image.version)) IN
  IF exit.signaled \/ exit.status = 0 THEN
    [ success |-> TRUE, output |-> stdout,
      metadata |-> [migration_count |-> migrationCount, return_code |-> 0] ]
  ELSE
    [ success |-> FALSE, output |-> errorOutput(stdout, stderr),
      metadata |-> [migration_count |-> migrationCount, return_code |-> exit.status] ]

runMigrationsReturnRawStatus(i, exit, stdout, stderr) ==
  LET migrationCount == Cardinality(MigrationDirs(i.image.version)) IN
  IF ~exit.signaled /\ exit.status = 0 THEN
    [ success |-> TRUE, output |-> stdout,
      metadata |-> [migration_count |-> migrationCount, return_code |-> 0] ]
  ELSE
    [ success |-> FALSE, output |-> errorOutput(stdout, stderr),
      metadata |-> [migration_count |-> migrationCount, return_code |-> exit.status] ]

runMigrationsReturnCountingPending(i, exit, stdout, stderr) ==
  LET migrationCount ==
        Cardinality({m \in MigrationDirs(i.image.version) : i.dbBefore[m] = 0}) IN
  IF ~exit.signaled /\ exit.status = 0 THEN
    [ success |-> TRUE, output |-> stdout,
      metadata |-> [migration_count |-> migrationCount, return_code |-> 0] ]
  ELSE
    [ success |-> FALSE, output |-> errorOutput(stdout, stderr),
      metadata |-> [ migration_count |-> migrationCount,
                     return_code |-> IF exit.signaled \/ exit.status = 0
                                     THEN -1 ELSE exit.status ] ]

\* runMigrations from the return (or the throw) of execSync on
runMigrationsReturn(i, exit, stdout, stderr) ==
  LET migrationCount == Cardinality(MigrationDirs(i.image.version)) IN
  IF ~exit.signaled /\ exit.status = 0 THEN
    [ success |-> TRUE, output |-> stdout,
      metadata |-> [migration_count |-> migrationCount, return_code |-> 0] ]
  ELSE
    [ success |-> FALSE, output |-> errorOutput(stdout, stderr),
      metadata |-> [ migration_count |-> migrationCount,
                     return_code |-> IF exit.signaled \/ exit.status = 0
                                     THEN -1 ELSE exit.status ] ]

\* performMigrations after `await getDatabaseCredentials` has settled
performMigrationsResume(i, latency) ==
  LET j == [i EXCEPT !.elapsed = @ + latency]
      got == getDatabaseCredentials(i.secret)
  IN  IF got.threw THEN Throw(j, got.error)
      ELSE runMigrations([j EXCEPT !.databaseUrl = databaseUrl(got.creds)])

performMigrationsWithoutSecretArnCheck(i) ==
  [i EXCEPT !.pc = "awaitSecret", !.credReads = @ + 1]

\* performMigrations up to `await getDatabaseCredentials`
performMigrations(i) ==
  IF i.env.DB_SECRET_ARN = "" THEN
    Throw(i, <<"DB_SECRET_ARN environment variable not set">>)
  ELSE [i EXCEPT !.pc = "awaitSecret", !.credReads = @ + 1]

createMigrationResource(i) == performMigrations(i)

updateMigrationResource(i) == performMigrations(i)

deleteMigrationResourceRunning(i) == performMigrations(i)

deleteMigrationResource(i) ==
  Resolve(i, [ PhysicalResourceId |->
                 IF i.event.PhysicalResourceId # Undefined
                 THEN i.event.PhysicalResourceId ELSE i.context.logStreamName,
               Data |-> [message |-> "Delete completed - migrations are not reverted"] ])

\* switch (event.RequestType); no case matches any other request type
handler(i) ==
  CASE i.event.RequestType = "Create" -> createMigrationResource(i)
    [] i.event.RequestType = "Update" -> updateMigrationResource(i)
    [] i.event.RequestType = "Delete" -> deleteMigrationResource(i)
    [] OTHER -> Resolve(i, NoResponse)

(***************************************************************************)
(* diesel migration run, as MIGRATION.md describes it: it applies only the *)
(* migrations that are not in __diesel_schema_migrations, in version       *)
(* order, and records each one it applied.                                 *)
(***************************************************************************)
PendingIgnoringTable(table, local) == local

Pending(table, local) == {m \in local : table[m] = 0}

\* the first k of a set of migrations, in version order
FirstK(S, k) == {m \in S : Cardinality({p \in S : p < m}) < k}

\* the tracking table after diesel applied the first k pending migrations
Diesel(table, local, k) ==
  [m \in DOMAIN table |->
     IF m \in FirstK(Pending(table, local), k) THEN table[m] + 1 ELSE table[m]]

\* how a run of diesel may end when k of the pending migrations were applied
ToolExits(nPending, k) ==
  {[cause |-> "ok", signaled |-> FALSE, status |-> 0] : x \in {y \in {1} : k = nPending}}
  \cup {[cause |-> "migrationError", signaled |-> FALSE, status |-> s] :
          s \in {t \in ExitStatuses : k < nPending}}
  \cup {[cause |-> "connectError", signaled |-> FALSE, status |-> s] :
          s \in {t \in ExitStatuses : k = 0}}
  \cup {[cause |-> "signal", signaled |-> TRUE, status |-> 0]}

TimeoutExit == [cause |-> "timeout", signaled |-> TRUE, status |-> 0]

(***************************************************************************)
(* The Lambda invocation, one action per stretch between suspension points *)
(***************************************************************************)
NewInvocation(source, event, context, env, secret, image) ==
  [IdleInv EXCEPT !.pc = "handler", !.source = source, !.event = event,
                  !.context = context, !.env = env, !.secret = secret,
                  !.image = image, !.dbBefore = db]

\* sam local invoke / aws lambda invoke: any event, any environment
ManualInvoke ==
  /\ inv.pc = "idle"
  /\ \E requestType \in RequestTypes, physicalId \in LogStreams \cup {Undefined},
        logStreamName \in LogStreams, env \in Envs, secret \in SecretStates,
        image \in Images :
       inv' = handler(NewInvocation("manual",
                        [RequestType |-> requestType, PhysicalResourceId |-> physicalId],
                        [logStreamName |-> logStreamName], env, secret, image))
  /\ UNCHANGED <<deployVars, db, orphan, libVars>>

\* secretsManager.send settles; the handler runs on to the spawn of diesel
SecretReturn ==
  /\ inv.pc = "awaitSecret"
  /\ \E latency \in SecretLatencies : inv' = performMigrationsResume(inv, latency)
  /\ UNCHANGED <<deployVars, db, orphan, libVars>>

\* diesel ends, or execSync kills it after its timeout; the handler runs to its end
ExecSyncReturn ==
  /\ inv.pc = "execSync"
  /\ LET local == MigrationDirs(inv.image.version)
         nPending == Cardinality(Pending(db, local))
     IN \E k \in 0..nPending, stdout \in StdoutTexts, stderr \in StderrTexts :
          \E exit \in ToolExits(nPending, k) \cup
                      (IF inv.elapsed + ExecTimeoutMinutes < LambdaTimeoutMinutes
                       THEN {TimeoutExit} ELSE {}) :
            /\ db' = Diesel(db, local, k)
            /\ inv' = performMigrationsFinish(
                        [inv EXCEPT !.exit = exit, !.stdout = stdout, !.stderr = stderr],
                        runMigrationsReturn(inv, exit, stdout, stderr))
  /\ UNCHANGED <<deployVars, orphan, libVars>>

\* the function's own timeout: Lambda ends the invocation, whatever it is waiting for
LambdaTimeout ==
  /\ \/ /\ inv.pc = "awaitSecret"
        /\ db' = db
     \/ /\ inv.pc = "execSync"
        /\ inv.elapsed + ExecTimeoutMinutes >= LambdaTimeoutMinutes
        /\ LET local == MigrationDirs(inv.image.version)
           IN \E k \in 0..Cardinality(Pending(db, local)) : db' = Diesel(db, local, k)
  /\ inv' = [Throw(inv, <<"Task timed out">>) EXCEPT
               !.killed = TRUE, !.elapsed = LambdaTimeoutMinutes]
  /\ UNCHANGED <<deployVars, orphan, libVars>>

\* the caller of a manual invocation has its answer
Return ==
  /\ inv.pc = "done"
  /\ inv.source = "manual"
  /\ inv' = IdleInv
  /\ UNCHANGED <<deployVars, db, orphan, libVars>>

(***************************************************************************)
(* cdk deploy --all: CloudFormation applies the stacks in an order that    *)
(* respects the addDependency edges.                                       *)
(***************************************************************************)
\* the parameters the VPC stack of another app publishes
ExternalVpcParams == {VpcParamStore[k] : k \in DOMAIN VpcParamStore}

NoTrigger ==
  [exists |-> FALSE, version |-> 0, physicalId |-> Undefined,
   replaced |-> Undefined, outcome |-> "none"]

\* cdk deploy runs the entry point first: the first stack constructor that throws
\* ends the run before anything is deployed
SynthError ==
  /\ \A s \in Stacks : stackStatus[s] = "pending"
  /\ \E i \in DOMAIN ConstructionOrder :
       /\ constructorThrows(ConstructionOrder[i], config)
       /\ \A j \in 1..(i - 1) : ~constructorThrows(ConstructionOrder[j], config)
       /\ stackStatus' = [stackStatus EXCEPT ![ConstructionOrder[i]] = "synthError"]
  /\ UNCHANGED <<config, registry, resolveLog, trigger, deploys, db, inv, orphan, libVars>>

\* a stack starts once every stack it depends on is complete; CloudFormation
\* reads its SSM parameters first
StartStack(s) ==
  /\ Synthesizes(config)
  /\ stackStatus[s] = "pending"
  /\ \A d \in DependsOn(s) : stackStatus[d] = "done"
  /\ LET reads == Resolves(s, config) IN
       /\ resolveLog' = resolveLog \cup
            {[stack |-> s, path |-> p, found |-> p \in registry] : p \in reads}
       /\ stackStatus' = [stackStatus EXCEPT
            ![s] = IF reads \subseteq registry THEN "deploying" ELSE "failed"]
  /\ UNCHANGED <<config, registry, trigger, deploys, db, inv, orphan, libVars>>

\* the resources of a stack are created, its StringParameters among them
CompleteStack(s) ==
  /\ s # "migration"
  /\ stackStatus[s] = "deploying"
  /\ stackStatus' = [stackStatus EXCEPT ![s] = "done"]
  /\ registry' = registry \cup Publishes(s)
  /\ UNCHANGED <<config, resolveLog, trigger, deploys, db, inv, orphan, libVars>>

\* a resource of the stack cannot be created; the stack rolls back
FailStack(s) ==
  /\ stackStatus[s] = "deploying"
  /\ stackStatus' = [stackStatus EXCEPT ![s] = "failed"]
  /\ UNCHANGED <<config, registry, resolveLog, trigger, deploys, db, inv, orphan, libVars>>

\* the environment lambdaConfigBase gives the function
deployedEnv == [DB_SECRET_ARN |-> "arn:secret", HYPERSWITCH_VERSION |-> "v1.119.0"]

\* the secret behind DB_SECRET_ARN: the one RDS generated, or none the function can read
DeployedSecrets ==
  {[kind |-> "missing", value |-> fullSecret], [kind |-> "json", value |-> fullSecret]}

\* MigrationTriggerV2 is created, or its properties changed: the Provider invokes
\* the function with a Create or an Update event
InvokeTrigger ==
  /\ stackStatus["migration"] = "deploying"
  /\ inv.pc = "idle"
  /\ ~trigger.exists \/ trigger.version # config.version
  /\ \E logStreamName \in LogStreams, secret \in DeployedSecrets :
       inv' = handler(NewInvocation("cfn",
                        [RequestType |-> IF trigger.exists THEN "Update" ELSE "Create",
                         PhysicalResourceId |-> trigger.physicalId],
                        [logStreamName |-> logStreamName], deployedEnv, secret,
                        [migrations |-> TRUE, dieselToml |-> TRUE,
                         version |-> config.version]))
  /\ stackStatus' = [stackStatus EXCEPT !["migration"] = "migrating"]
  /\ UNCHANGED <<config, registry, resolveLog, trigger, deploys, db, orphan, libVars>>

\* the properties of MigrationTriggerV2 are unchanged: no event is sent
SkipTrigger ==
  /\ stackStatus["migration"] = "deploying"
  /\ trigger.exists /\ trigger.version = config.version
  /\ stackStatus' = [stackStatus EXCEPT !["migration"] = "done"]
  /\ registry' = registry \cup Publishes("migration")
  /\ UNCHANGED <<config, resolveLog, trigger, deploys, db, inv, orphan, libVars>>

\* the Provider reports the handler's outcome; a new physical id on Update makes
\* CloudFormation delete the old resource during clean-up
TriggerDone ==
  /\ stackStatus["migration"] = "migrating"
  /\ inv.pc = "done" /\ inv.source = "cfn"
  /\ IF inv.outcome = "Succeeded" THEN
       LET replacing == trigger.exists
                        /\ inv.response.PhysicalResourceId # trigger.physicalId
       IN /\ trigger' = [exists |-> TRUE, version |-> config.version,
                         physicalId |-> inv.response.PhysicalResourceId,
                         replaced |-> IF replacing THEN trigger.physicalId ELSE Undefined,
                         outcome |-> "Succeeded"]
          /\ stackStatus' = [stackStatus EXCEPT
               !["migration"] = IF replacing THEN "cleanup" ELSE "done"]
          /\ registry' = IF replacing THEN registry
                         ELSE registry \cup Publishes("migration")
     ELSE
       /\ trigger' = [trigger EXCEPT !.outcome = "Failed"]
       /\ stackStatus' = [stackStatus EXCEPT !["migration"] = "failed"]
       /\ registry' = registry
  /\ inv' = IdleInv
  /\ UNCHANGED <<config, resolveLog, deploys, db, orphan, libVars>>

\* the clean-up Delete for the replaced physical id
CleanupDelete ==
  /\ stackStatus["migration"] = "cleanup"
  /\ inv.pc = "idle"
  /\ \E logStreamName \in LogStreams :
       inv' = handler(NewInvocation("cfn",
                        [RequestType |-> "Delete", PhysicalResourceId |-> trigger.replaced],
                        [logStreamName |-> logStreamName], deployedEnv,
                        [kind |-> "json", value |-> fullSecret],
                        [migrations |-> TRUE, dieselToml |-> TRUE,
                         version |-> config.version]))
  /\ UNCHANGED <<deployVars, db, orphan, libVars>>

CleanupDone ==
  /\ stackStatus["migration"] = "cleanup"
  /\ inv.pc = "done" /\ inv.source = "cfn"
  /\ stackStatus' = [stackStatus EXCEPT !["migration"] = "done"]
  /\ registry' = registry \cup Publishes("migration")
  /\ inv' = IdleInv
  /\ UNCHANGED <<config, resolveLog, trigger, deploys, db, orphan, libVars>>

\* the next cdk deploy --all, possibly with another router version or another
\* rds.subnetType in awsconfig.ts
NewDeployment ==
  /\ deploys < MaxDeploys
  /\ \A s \in Stacks : stackStatus[s] \in {"pending", "done", "failed", "synthError"}
  /\ \E s \in Stacks : stackStatus[s] # "pending"
  /\ inv.pc = "idle"
  /\ \E cfg \in [subnetType : SubnetTypes, version : Versions] : config' = cfg
  /\ deploys' = deploys + 1
  /\ stackStatus' = [s \in Stacks |-> "pending"]
  /\ trigger' = [trigger EXCEPT !.outcome = "none"]
  /\ UNCHANGED <<registry, resolveLog, db, inv, orphan, libVars>>

(***************************************************************************)
(* A deployment cancelled while MigrationTriggerV2 waits for the function: *)
(* CloudFormation stops waiting and rolls the stack back, the stack and    *)
(* the handler define no abort path, and Lambda runs the invocation on to  *)
(* its end or to the function's timeout. The function has no reserved      *)
(* concurrency, so a later trigger invocation does not wait for it.        *)
(***************************************************************************)
\* the response of an abandoned invocation reaches nobody
Abandon(i) == IF i.pc = "done" THEN IdleInv ELSE i

\* the deployment is cancelled while the trigger's invocation is in flight
CancelDeployment ==
  /\ stackStatus["migration"] = "migrating"
  /\ inv.source = "cfn"
  /\ inv.pc \in {"awaitSecret", "execSync"}
  /\ orphan.pc = "idle"
  /\ orphan' = inv
  /\ inv' = IdleInv
  /\ stackStatus' = [stackStatus EXCEPT !["migration"] = "failed"]
  /\ trigger' = [trigger EXCEPT !.outcome = "Failed"]
  /\ UNCHANGED <<config, registry, resolveLog, deploys, db, libVars>>

\* the abandoned invocation: secretsManager.send settles
OrphanSecretReturn ==
  /\ orphan.pc = "awaitSecret"
  /\ \E latency \in SecretLatencies :
       orphan' = Abandon(performMigrationsResume(orphan, latency))
  /\ UNCHANGED <<deployVars, db, inv, libVars>>

\* the abandoned invocation: diesel ends, or execSync kills it after its timeout
OrphanExecSyncReturn ==
  /\ orphan.pc = "execSync"
  /\ LET local == MigrationDirs(orphan.image.version)
     IN \E k \in 0..Cardinality(Pending(db, local)) : db' = Diesel(db, local, k)
  /\ orphan' = IdleInv
  /\ UNCHANGED <<deployVars, inv, libVars>>

\* the abandoned invocation: the function's own timeout
OrphanLambdaTimeout ==
  /\ orphan.pc = "awaitSecret"
  /\ orphan' = IdleInv
  /\ UNCHANGED <<deployVars, db, inv, libVars>>

(***************************************************************************)
(* ParamStore objects under construction: every call of ParamStore.create  *)
(* and every attribute set built for a resource name is recorded with the  *)
(* paths it holds.                                                         *)
(***************************************************************************)
RdsClusterParamStore(dbName) ==
  [ SSM_RDS_CLUSTER_ARN_PARAM      |-> create(<<dbName, "cluster", "arn">>),
    SSM_RDS_CLUSTER_ENDPOINT_PARAM |-> create(<<dbName, "cluster", "endpoint">>),
    SSM_RDS_CLUSTER_PORT_PARAM     |-> create(<<dbName, "cluster", "port">>),
    SSM_RDS_CLUSTER_MASTER_CREDENTIALS_SECRET_ARN_PARAM |->
      create(<<dbName, "cluster", "master", "credentials", "secret", "arn">>),
    SSM_RDS_CLUSTER_MASTER_CREDENTIALS_KMS_KEY_ID_PARAM |->
      create(<<dbName, "cluster", "master", "credentials", "kms", "key", "id">>),
    SSM_RDS_CLUSTER_MASTER_CREDENTIALS_KMS_KEY_ARN_PARAM |->
      create(<<dbName, "cluster", "master", "credentials", "kms", "key", "arn">>) ]

EksParamStore ==
  [ SSM_EKS_CLUSTER_ARN      |-> create(<<"eks", "cluster", "arn">>),
    SSM_EKS_CLUSTER_NAME     |-> create(<<"eks", "cluster", "name">>),
    SSM_EKS_CLUSTER_ENDPOINT |-> create(<<"eks", "cluster", "endpoint">>),
    SSM_EKS_CLUSTER_OPEN_ID_CONNECT_ISSUER |-> create(<<"eks", "cluster", "openIdConnectIssuer">>),
    SSM_EKS_CLUSTER_KUBECTL_ROLE_ARN |-> create(<<"eks", "cluster", "kubectl", "role", "arn">>),
    SSM_EKS_CLUSTER_KUBECTL_SG_ID    |-> create(<<"eks", "cluster", "kubectl", "sg", "id">>),
    SSM_EKS_CLUSTER_CLUSTER_SG_ID    |-> create(<<"eks", "cluster", "cluster", "sg", "id">>),
    SSM_EKS_CLUSTER_OPEN_ID_CONNECT_PROVIDER_ARN |->
      create(<<"eks", "cluster", "openIdConnectProvider", "arn">>),
    SSM_EKS_CLUSTER_KUBECTL_LAYER_ARN |-> create(<<"eks", "cluster", "kubectl", "layer", "arn">>),
    SSM_EKS_CLUSTER_KUBECTL_PROVIDER_ROLE_ARN |->
      create(<<"eks", "cluster", "kubectl", "provider", "role", "arn">>),
    SSM_EKS_CLUSTER_KUBECTL_PROVIDER_SERVICE_TOKEN |->
      create(<<"eks", "cluster", "kubectl", "provider", "service", "token">>),
    SSM_EKS_CLUSTER_KARPENTER_ROLE_ARN |-> create(<<"eks", "cluster", "karpenter", "role", "arn">>) ]

\* ParamStore.createWithEnv(env, ...params) == new ParamStore("ashanti", env, ...params).value
createWithEnv(env, params) == PARAM_BASE(<<"ashanti", env>> \o params)

\* the static EKS parameter methods of ParamStore
eksStaticMethods ==
  [ eksClusterName     |-> create(<<"eks", "cluster", "name">>),
    eksClusterEndpoint |-> create(<<"eks", "cluster", "endpoint">>),
    eksClusterClusterSgId |-> create(<<"eks", "cluster", "cluster", "sg", "id">>),
    eksClusterOpenIdConnectProviderArn |->
      create(<<"eks", "cluster", "openIdConnectProvider", "arn">>),
    eksClusterKubectlProviderServiceToken |->
      create(<<"eks", "cluster", "kubectl", "provider", "service", "token">>),
    eksClusterKubectlProviderRoleArn |->
      create(<<"eks", "cluster", "kubectl", "provider", "role", "arn">>),
    eksClusterKubectlLayerArn |-> create(<<"eks", "cluster", "kubectl", "layer", "arn">>) ]

StorageParamStore(bucketName) ==
  [ SSM_STORAGE_BUCKET_ARN_PARAM  |-> create(<<"storage", bucketName, "bucket", "arn">>),
    SSM_STORAGE_BUCKET_NAME_PARAM |-> create(<<"storage", bucketName, "bucket", "name">>) ]

CertificateAuthorityParamStore(authorityName) ==
  [ SSM_CERTIFICATE_AUTHORITY_ROOT_KEY_PARAM |->
      create(<<"certificate-authority", authorityName, "root", "key">>),
    SSM_CERTIFICATE_AUTHORITY_ROOT_CERT_PARAM |->
      create(<<"certificate-authority", authorityName, "root", "cert">>),
    SSM_CERTIFICATE_AUTHORITY_CLIENT_KEY_PARAM |->
      create(<<"certificate-authority", authorityName, "client", "key">>),
    SSM_CERTIFICATE_AUTHORITY_CLIENT_CERT_PARAM |->
      create(<<"certificate-authority", authorityName, "client", "cert">>) ]

BatchParamStore(jobName) ==
  [ SSM_BATCH_JOB_QUEUE_ARN_PARAM       |-> create(<<"batch", jobName, "job-queue-arn">>),
    SSM_BATCH_JOB_DEFINITION_ARN_PARAM  |-> create(<<"batch", jobName, "job-definition-arn">>),
    SSM_BATCH_JOB_QUEUE_NAME_PARAM      |-> create(<<"batch", jobName, "job-queue-name">>),
    SSM_BATCH_JOB_DEFINITION_NAME_PARAM |-> create(<<"batch", jobName, "job-definition-name">>) ]

HostedZoneParamStore(hostedZoneName) ==
  [ SSM_HOSTED_ZONE_ID_PARAM       |-> create(<<"hosted-zone", hostedZoneName, "id">>),
    SSM_HOSTED_ZONE_ROLE_ARN_PARAM |-> create(<<"hosted-zone", hostedZoneName, "role", "arn">>) ]

SupabaseParamStore ==
  [ SSM_SUPABASE_CONNECTION_PARAM |-> create(<<"supabase", "connection">>) ]

RetellParamStore ==
  [ SSM_RETELL_API_KEY_PARAM |-> create(<<"retell", "api-key">>) ]

\* `/customer-sync/${tenantCode}/${source}/mariadb`: a raw name, not built by create
CustomerSyncParamStore(tenantCode, source) ==
  [ SSM_CUSTOMER_SYNC_MARIADB_PARAM |->
      "/customer-sync/" \o tenantCode \o "/" \o source \o "/mariadb" ]

(***************************************************************************)
(* lib/aws/constructs/strings.ts and the certificate attribute set         *)
(***************************************************************************)
\* String.prototype.toUpperCase on one character
toUpperCase(c) ==
  LET upper ==
        [ a |-> "A", b |-> "B", c |-> "C", d |-> "D", e |-> "E", f |-> "F", g |-> "G",
          h |-> "H", i |-> "I", j |-> "J", k |-> "K", l |-> "L", m |-> "M", n |-> "N",
          o |-> "O", p |-> "P", q |-> "Q", r |-> "R", s |-> "S", t |-> "T", u |-> "U",
          v |-> "V", w |-> "W", x |-> "X", y |-> "Y", z |-> "Z" ]
  IN IF c \in DOMAIN upper THEN upper[c] ELSE c

\* the characters of the class [\s\-._]
SeparatorChars == {" ", "-", ".", "_"}

\* part.split(/[\s\-._]+/) from position i on: `piece` is the piece being read and
\* inRun tells that the previous character belonged to a separator run
RECURSIVE splitFrom(_, _, _, _)
splitFrom(part, i, piece, inRun) ==
  IF i > Len(part) THEN <<piece>>
  ELSE LET c == SubSeq(part, i, i) IN
       IF c \in SeparatorChars
       THEN IF inRun THEN splitFrom(part, i + 1, piece, TRUE)
            ELSE <<piece>> \o splitFrom(part, i + 1, "", TRUE)
       ELSE splitFrom(part, i + 1, piece \o c, FALSE)

split(part) == splitFrom(part, 1, "", FALSE)

\* p.charAt(0).toUpperCase() + p.slice(1)
upperFirst(p) ==
  IF p = "" THEN "" ELSE toUpperCase(SubSeq(p, 1, 1)) \o SubSeq(p, 2, Len(p))

\* capitalize(part): split at runs of separators, upper-case each first letter, join('')
capitalize(part) ==
  LET pieces == split(part)
  IN  join([i \in 1..Len(pieces) |-> upperFirst(pieces[i])], "")

\* String.prototype.replace with a string pattern: the first occurrence only
replace(s, pattern, replacement) ==
  LET hits == {i \in 1..(Len(s) - Len(pattern) + 1) :
                 SubSeq(s, i, i + Len(pattern) - 1) = pattern}
  IN  IF hits = {} THEN s
      ELSE LET i == CHOOSE h \in hits : \A g \in hits : h <= g
           IN  SubSeq(s, 1, i - 1) \o replacement \o SubSeq(s, i + Len(pattern), Len(s))

sanitizedDomainName(domainName) == capitalize(replace(domainName, "*.", "Wildcard"))

CertificateParamStore(domainName) ==
  [ SSM_CERTIFICATE_ARN_PARAM |-> create(<<"certificate", sanitizedDomainName(domainName), "arn">>),
    SSM_CERTIFICATE_ID_PARAM  |-> create(<<"certificate", sanitizedDomainName(domainName), "id">>) ]

\* the values of the ParamStore fields of an attribute set
Paths(store) == {store[k] : k \in DOMAIN store}

\* segments handed to ParamStore.create: empty, plain, and one holding the separator
Segments ==
  {"", "juspaydotin", "hyperswitch-migration2", "juspaydotin/hyperswitch-migration2"}

\* the argument lists of ParamStore.create, up to MaxParams segments
ParamLists == UNION {[1..n -> Segments] : n \in 0..MaxParams}

\* instance names handed to the attribute-set constructors: plain names, the
\* repository name of the migration image, an empty name and one ending in '/'
Names == {"hyperswitch", "eks", "ecr", "rds", repositoryName, "", "juspaydotin/"}

\* the function names of the lambda attribute sets and the names handed to the batch,
\* hosted-zone, certificate-authority and storage attribute sets: two names and an
\* empty one
InstanceNames == {"hyperswitch", "eks", ""}

\* domain names handed to ParamStore.certificate
DomainNames ==
  { "example.com", "api.example.com", "api-example.com", "*.example.com",
    "wildcardexample.com", "" }

\* tenant codes and sources handed to ParamStore.customerSync
TenantCodes == {"", "acme"}

Sources == {"", "erp"}

\* the env argument of ParamStore.createWithEnv
EnvNames == {"", "prod"}

\* the attribute sets a stack can ask ParamStore for, by the static method called
ParamStoreKinds ==
  {[kind |-> "rdsInstance", args |-> <<n>>, paths |-> Paths(RdsInstanceParamStore(n))] :
     n \in Names}
  \cup {[kind |-> "rdsCluster", args |-> <<n>>, paths |-> Paths(RdsClusterParamStore(n))] :
          n \in Names}
  \cup {[kind |-> "elasticache", args |-> <<n>>, paths |-> Paths(ElasticacheParamStore(n))] :
          n \in Names}
  \cup {[kind |-> "ecr", args |-> <<n>>, paths |-> Paths(EcrParamStore(n))] : n \in Names}
  \cup {[kind |-> "lambda", args |-> <<n, f>>, paths |-> Paths(LambdaParamStore(n, f))] :
          n \in Names, f \in InstanceNames}
  \cup {[kind |-> "eks", args |-> <<>>, paths |-> Paths(EksParamStore)]}
  \cup {[kind |-> "eks", args |-> <<m>>, paths |-> {eksStaticMethods[m]}] :
          m \in DOMAIN eksStaticMethods}
  \cup {[kind |-> "vpc", args |-> <<>>, paths |-> Paths(VpcParamStore)]}
  \cup {[kind |-> "batch", args |-> <<n>>, paths |-> Paths(BatchParamStore(n))] : n \in InstanceNames}
  \cup {[kind |-> "hostedZone", args |-> <<n>>, paths |-> Paths(HostedZoneParamStore(n))] :
          n \in InstanceNames}
  \cup {[kind |-> "certificate", args |-> <<d>>, paths |-> Paths(CertificateParamStore(d))] :
          d \in DomainNames}
  \cup {[kind |-> "certificateAuthority", args |-> <<n>>,
         paths |-> Paths(CertificateAuthorityParamStore(n))] : n \in InstanceNames}
  \cup {[kind |-> "supabase", args |-> <<>>, paths |-> Paths(SupabaseParamStore)]}
  \cup {[kind |-> "retell", args |-> <<>>, paths |-> Paths(RetellParamStore)]}
  \cup {[kind |-> "customerSync", args |-> <<t, c>>,
         paths |-> Paths(CustomerSyncParamStore(t, c))] : t \in TenantCodes, c \in Sources}
  \cup {[kind |-> "storage", args |-> <<n>>, paths |-> Paths(StorageParamStore(n))] :
          n \in InstanceNames}

NoImport ==
  [ pc |-> "none", props |-> EmptyRecord, typeChecked |-> FALSE, reads |-> {},
    attributes |-> EmptyRecord, ssm |-> [exists |-> FALSE, stored |-> <<>>],
    error |-> "", resolved |-> EmptyRecord ]

\* ParamStore.create(...params)
Create ==
  /\ importedVpc.pc = "none"
  /\ Cardinality(paramStores) < MaxStores
  /\ \A s \in paramStores : s.kind = "create"
  /\ \E params \in ParamLists :
       paramStores' = paramStores \cup
         {[kind |-> "create", args |-> params, paths |-> {create(params)}]}
  /\ UNCHANGED <<deployVars, db, inv, orphan, importedVpc>>

\* ParamStore.createWithEnv(env, ...params)
CreateWithEnv ==
  /\ importedVpc.pc = "none"
  /\ Cardinality(paramStores) < MaxStores
  /\ \A s \in paramStores : s.kind = "createWithEnv"
  /\ \E env \in EnvNames, params \in ParamLists :
       /\ Len(params) < MaxParams
       /\ paramStores' = paramStores \cup
            {[ kind |-> "createWithEnv", args |-> <<env>> \o params,
               paths |-> {createWithEnv(env, params)} ]}
  /\ UNCHANGED <<deployVars, db, inv, orphan, importedVpc>>

\* ParamStore.rdsInstance(name), .rdsCluster(name), .ecr(name), ...: new XParamStore(name)
NewParamStore ==
  /\ importedVpc.pc = "none"
  /\ Cardinality(paramStores) < MaxStores
  /\ \A s \in paramStores : s.kind \notin {"create", "createWithEnv"}
  /\ \E store \in ParamStoreKinds : paramStores' = paramStores \cup {store}
  /\ UNCHANGED <<deployVars, db, inv, orphan, importedVpc>>

(***************************************************************************)
(* ImportedVpc.FromSSM, from the call to the deployment of the stack that  *)
(* made it: the props are type-checked, FromSSM builds the attributes of   *)
(* the VPC out of references to SSM parameters, and CloudFormation         *)
(* resolves the references when it applies the stack.                      *)
(***************************************************************************)
IncludeFlags ==
  { "includeVpcCidr",
    "includePublicSubnets", "includePublicSubnetRouteTables", "includePublicSubnetCidrs",
    "includePrivateSubnets", "includePrivateSubnetRouteTables", "includePrivateSubnetCidrs",
    "includeIsolatedSubnets", "includeIsolatedSubnetRouteTables", "includeIsolatedSubnetCidrs" }

\* the properties interface ImportedVpcProps declares
ImportedVpcProps == {"maxAzs"} \cup IncludeFlags

\* maxAzs = 1 unless the props give it
propsMaxAzs(props) == IF "maxAzs" \in DOMAIN props THEN props.maxAzs ELSE 1

\* a value of the attributes: undefined, or references into SSM parameters; index -1
\* refers to a whole String parameter, index i to Fn.select(i, <StringList parameter>)
UndefinedValue == [defined |-> FALSE, refs |-> <<>>]

valueForStringParameter(include, parameterName) ==
  IF ~include THEN UndefinedValue
  ELSE [defined |-> TRUE, refs |-> <<[path |-> parameterName, index |-> -1]>>]

valueForStringListParameterAlwaysReading(include, maxAzs, parameterName) ==
  [ defined |-> TRUE,
    refs |-> [i \in 1..maxAzs |-> [path |-> parameterName, index |-> i - 1]] ]

valueForStringListParameterOneBased(include, maxAzs, parameterName) ==
  IF ~include THEN UndefinedValue
  ELSE [ defined |-> TRUE,
         refs |-> [i \in 1..maxAzs |-> [path |-> parameterName, index |-> i]] ]

valueForStringListParameter(include, maxAzs, parameterName) ==
  IF ~include THEN UndefinedValue
  ELSE [ defined |-> TRUE,
         refs |-> [i \in 1..maxAzs |-> [path |-> parameterName, index |-> i - 1]] ]

\* the VpcAttributes FromSSM hands to ec2.Vpc.fromVpcAttributes
fromVpcAttributes(props) ==
  LET maxAzs == propsMaxAzs(props)
      P == VpcParamStore
  IN
  [ vpcId             |-> valueForStringParameter(TRUE, P.SSM_VPC_ID_PARAM),
    availabilityZones |-> valueForStringListParameter(TRUE, maxAzs, P.SSM_VPC_AZS_PARAM),
    vpcCidrBlock      |-> valueForStringParameter(includeFlag(props, "includeVpcCidr"),
                                                  P.SSM_VPC_CIDR_PARAM),
    privateSubnetIds  |-> valueForStringListParameter(includeFlag(props, "includePrivateSubnets"),
                            maxAzs, P.SSM_VPC_PRIVATE_SUBNET_IDS_PARAM),
    privateSubnetRouteTableIds |->
      valueForStringListParameter(includeFlag(props, "includePrivateSubnetRouteTables"),
                                  maxAzs, P.SSM_VPC_PRIVATE_SUBNET_ROUTE_TABLE_IDS_PARAM),
    privateSubnetIpv4CidrBlocks |->
      valueForStringListParameter(includeFlag(props, "includePrivateSubnetCidrs"),
                                  maxAzs, P.SSM_VPC_PRIVATE_SUBNET_IPV4_CIDR_BLOCKS_PARAM),
    publicSubnetIds   |-> valueForStringListParameter(includeFlag(props, "includePublicSubnets"),
                            maxAzs, P.SSM_VPC_PUBLIC_SUBNET_IDS_PARAM),
    publicSubnetRouteTableIds |->
      valueForStringListParameter(includeFlag(props, "includePublicSubnetRouteTables"),
                                  maxAzs, P.SSM_VPC_PUBLIC_SUBNET_ROUTE_TABLE_IDS_PARAM),
    publicSubnetIpv4CidrBlocks |->
      valueForStringListParameter(includeFlag(props, "includePublicSubnetCidrs"),
                                  maxAzs, P.SSM_VPC_PUBLIC_SUBNET_IPV4_CIDR_BLOCKS_PARAM),
    isolatedSubnetIds |-> valueForStringListParameter(includeFlag(props, "includeIsolatedSubnets"),
                            maxAzs, P.SSM_VPC_ISOLATED_SUBNET_IDS_PARAM),
    isolatedSubnetRouteTableIds |->
      valueForStringListParameter(includeFlag(props, "includeIsolatedSubnetRouteTables"),
                                  maxAzs, P.SSM_VPC_ISOLATED_SUBNET_ROUTE_TABLE_IDS_PARAM),
    isolatedSubnetIpv4CidrBlocks |->
      valueForStringListParameter(includeFlag(props, "includeIsolatedSubnetCidrs"),
                                  maxAzs, P.SSM_VPC_ISOLATED_SUBNET_IPV4_CIDR_BLOCKS_PARAM) ]

excessPropertyCheckSkipped(props) == TRUE

\* the excess-property check of an object literal passed as ImportedVpcProps
excessPropertyCheck(props) == DOMAIN props \subseteq ImportedVpcProps

\* Fn.select(index, list) as CloudFormation evaluates it: zero-based, and an error
\* when the list has no such element
select(index, list) ==
  IF index < Len(list) THEN [ok |-> TRUE, value |-> list[index + 1]]
  ELSE [ok |-> FALSE, value |-> ""]

\* the value CloudFormation puts in place of one reference
resolveRef(ref, ssm) ==
  IF ref.index = -1 THEN [ok |-> TRUE, value |-> "value"]
  ELSE select(ref.index, ssm.stored)

\* the attribute values once every reference is resolved
resolveAttributes(attributes, ssm) ==
  [a \in DOMAIN attributes |->
     [ defined |-> attributes[a].defined,
       values  |-> [i \in 1..Len(attributes[a].refs) |->
                      resolveRef(attributes[a].refs[i], ssm).value] ]]

\* a StringList parameter as stored: n elements, in descending order
StoredList(n) == [i \in 1..n |-> "az-" \o ToString(MaxListLen + 1 - i)]

\* the VPC parameters in SSM: none at all, or all of them, every list with n elements
SsmStates ==
  {[exists |-> FALSE, stored |-> <<>>]}
  \cup {[exists |-> TRUE, stored |-> StoredList(n)] : n \in 0..MaxListLen}

\* the props of a call: any set of include flags switched off, maxAzs given or not,
\* and possibly a key ImportedVpcProps does not declare
PropsInputs ==
  { [k \in off \cup azs \cup extra |->
       IF k = "maxAzs" THEN n ELSE IF k \in IncludeFlags THEN FALSE ELSE TRUE] :
      off \in SUBSET IncludeFlags, azs \in {{}, {"maxAzs"}}, n \in 1..MaxListLen,
      extra \in {{}, {"includeNatGateways"}} }

\* a stack constructor calls ImportedVpc.FromSSM(this, props); a type-checked build
\* rejects an object literal with a key the props interface does not declare
ImportVpc ==
  /\ importedVpc.pc = "none"
  /\ paramStores = {}
  /\ \E props \in PropsInputs, typeChecked \in BOOLEAN :
       importedVpc' =
         IF typeChecked /\ ~excessPropertyCheck(props) THEN
           [NoImport EXCEPT !.pc = "typeError", !.props = props, !.typeChecked = typeChecked,
                            !.error = "TS2353: Object literal may only specify known properties"]
         ELSE
           [NoImport EXCEPT !.pc = "synthesized", !.props = props,
                            !.typeChecked = typeChecked,
                            !.reads = FromSSM(props),
                            !.attributes = fromVpcAttributes(props)]
  /\ UNCHANGED <<deployVars, db, inv, orphan, paramStores>>

\* CloudFormation applies the stack: it fetches every SSM parameter the template
\* refers to, then evaluates the Fn::Select of every element
DeployImportedVpc ==
  /\ importedVpc.pc = "synthesized"
  /\ \E ssm \in SsmStates :
       LET attributes == importedVpc.attributes
           refs == UNION {{attributes[a].refs[i] : i \in 1..Len(attributes[a].refs)} :
                            a \in DOMAIN attributes}
       IN importedVpc' =
            IF importedVpc.reads # {} /\ ~ssm.exists THEN
              [importedVpc EXCEPT !.pc = "failed", !.ssm = ssm,
                                  !.error = "Unable to fetch parameters from parameter store"]
            ELSE IF \E ref \in refs : ~resolveRef(ref, ssm).ok THEN
              [importedVpc EXCEPT !.pc = "failed", !.ssm = ssm,
                                  !.error = "Fn::Select cannot select nonexistent value"]
            ELSE
              [importedVpc EXCEPT !.pc = "deployed", !.ssm = ssm,
                                  !.resolved = resolveAttributes(attributes, ssm)]
  /\ UNCHANGED <<deployVars, db, inv, orphan, paramStores>>

(***************************************************************************)
(* Specifications                                                          *)
(***************************************************************************)
\* the handler alone, invoked by hand against a fresh database
Init ==
  /\ config = [subnetType |-> "PUBLIC", version |-> 1]
  /\ stackStatus = [s \in Stacks |-> "pending"]
  /\ registry = {}
  /\ resolveLog = {}
  /\ trigger = NoTrigger
  /\ deploys = 0
  /\ db = [m \in Versions |-> 0]
  /\ inv = IdleInv
  /\ orphan = IdleInv
  /\ paramStores = {}
  /\ importedVpc = NoImport

Next ==
  \/ ManualInvoke
  \/ SecretReturn
  \/ ExecSyncReturn
  \/ LambdaTimeout
  \/ Return

Spec == Init /\ [][Next]_vars

\* the deployment: the VPC parameters exist already, or they do not
DeployInit ==
  /\ config \in [subnetType : SubnetTypes, version : Versions]
  /\ stackStatus = [s \in Stacks |-> "pending"]
  /\ registry \in {{}, ExternalVpcParams}
  /\ resolveLog = {}
  /\ trigger = NoTrigger
  /\ deploys = 1
  /\ db = [m \in Versions |-> 0]
  /\ inv = IdleInv
  /\ orphan = IdleInv
  /\ paramStores = {}
  /\ importedVpc = NoImport

DeployNext ==
  \/ SynthError
  \/ \E s \in Stacks : StartStack(s)
  \/ \E s \in Stacks : CompleteStack(s)
  \/ \E s \in Stacks : FailStack(s)
  \/ InvokeTrigger
  \/ SkipTrigger
  \/ TriggerDone
  \/ CleanupDelete
  \/ CleanupDone
  \/ NewDeployment
  \/ SecretReturn
  \/ ExecSyncReturn
  \/ LambdaTimeout

DeploySpec == DeployInit /\ [][DeployNext]_vars

\* the deployment with an operator who may cancel it
CancelNext ==
  \/ SynthError
  \/ \E s \in Stacks : StartStack(s)
  \/ \E s \in Stacks : CompleteStack(s)
  \/ \E s \in Stacks : FailStack(s)
  \/ InvokeTrigger
  \/ SkipTrigger
  \/ TriggerDone
  \/ CleanupDelete
  \/ CleanupDone
  \/ NewDeployment
  \/ SecretReturn
  \/ ExecSyncReturn
  \/ LambdaTimeout
  \/ CancelDeployment
  \/ OrphanSecretReturn
  \/ OrphanExecSyncReturn
  \/ OrphanLambdaTimeout

CancelSpec == DeployInit /\ [][CancelNext]_vars

\* the library on its own: ParamStore objects are built and compared, or one
\* ImportedVpc.FromSSM call is followed to the deployment of its stack
LibInit == Init

LibNext ==
  \/ Create
  \/ CreateWithEnv
  \/ NewParamStore
  \/ ImportVpc
  \/ DeployImportedVpc

LibSpec == LibInit /\ [][LibNext]_vars

(***************************************************************************)
(* Properties                                                              *)
(***************************************************************************)
CreateOrUpdate == inv.pc # "idle" /\ inv.event.RequestType \in {"Create", "Update"}

Finished == inv.pc = "done"

\* needle occurs in hay as a contiguous run of chunks
Contains(hay, needle) ==
  \E start \in 0..(Len(hay) - Len(needle)) :
    SubSeq(hay, start + 1, start + Len(needle)) = needle

\* every migration the image ships is recorded in the tracking table
AtVersion(table, image) == \A m \in MigrationDirs(image.version) : table[m] >= 1

\* C1: a Delete event always ends at once in a success response with the no-action
\* message, whatever the environment, the secret, the image and the database are;
\* it reads no credentials, runs no tool and leaves the tracking table as it was.
C1_DeleteIsNoOp ==
  (inv.pc # "idle" /\ inv.event.RequestType = "Delete") =>
    /\ inv.pc = "done"
    /\ inv.outcome = "Succeeded"
    /\ DOMAIN inv.response.Data = {"message"}
    /\ inv.response.Data.message = "Delete completed - migrations are not reverted"
    /\ inv.credReads = 0
    /\ inv.toolRuns = 0
    /\ inv.results = <<>>
    /\ db = inv.dbBefore

C1_Witness ==
  /\ Finished /\ inv.event.RequestType = "Delete"
  /\ inv.env.DB_SECRET_ARN = "" /\ inv.secret.kind = "missing" /\ ~inv.image.migrations
  /\ db[1] = 1
  /\ inv.outcome = "Succeeded"

\* C2: a Create or Update whose MigrationResult has success = false ends Failed with
\* the thrown error "Migration failed: <output>"; one that ends Succeeded has a
\* MigrationResult with success = true.
C2_FailurePropagates ==
  (Finished /\ CreateOrUpdate) =>
    /\ \A n \in 1..Len(inv.results) :
         ~inv.results[n].success =>
           /\ inv.outcome = "Failed"
           /\ inv.error = <<"Migration failed: ">> \o inv.results[n].output
    /\ inv.outcome = "Succeeded" =>
         /\ Len(inv.results) = 1
         /\ inv.results[1].success

C2_Witness ==
  /\ Finished /\ CreateOrUpdate
  /\ inv.exit.cause = "migrationError"
  /\ Len(inv.results) = 1 /\ ~inv.results[1].success
  /\ inv.outcome = "Failed"

C4_AppAfterMigration ==
  stackStatus["app"] # "pending" =>
    /\ stackStatus["migration"] = "done"
    /\ trigger.outcome # "Failed"

C4_Witness ==
  /\ trigger.outcome = "Failed"
  /\ stackStatus["migration"] = "failed"
  /\ \A s \in {"infra", "database", "elasticache"} : stackStatus[s] = "done"
  /\ stackStatus["app"] = "pending"

\* a producer of the path among the stacks the consumer depends on
PublishedUpstream(s, p) == \E t \in Upstream(s) : p \in Publishes(t)

C6_ResolveAfterPublish ==
  \A r \in resolveLog :
    (/\ r.stack \in {"migration", "app"}
     /\ r.path \in Publishes("database") \cup Publishes("elasticache"))
    => r.found

C6_Witness ==
  /\ [stack |-> "migration", path |-> hyperswitchRds.SSM_RDS_SECRET_ARN_PARAM,
      found |-> TRUE] \in resolveLog
  /\ [stack |-> "app", path |-> hyperswitchElasticache.SSM_ELASTICACHE_ENDPOINT_PARAM,
      found |-> TRUE] \in resolveLog
  /\ stackStatus["app"] = "done"

\* C7 as claimed: a finished Create or Update ran the tool at most once and
\* produced exactly one MigrationResult.
C7_ExactlyOneResult ==
  (Finished /\ CreateOrUpdate) => (inv.toolRuns <= 1 /\ Len(inv.results) = 1)

\* C7: a Create or Update runs the tool at most once and produces at most one
\* MigrationResult, after which it has ended; it produces exactly one when the
\* credentials were resolved and the function was not timed out, and none when it
\* ended before runMigrations was reached.
C7_AtMostOneRun ==
  CreateOrUpdate =>
    /\ inv.toolRuns <= 1
    /\ Len(inv.results) <= 1
    /\ Len(inv.results) = 1 => Finished
    /\ (Finished /\ inv.databaseUrl # "" /\ ~inv.killed) => Len(inv.results) = 1
    /\ (Finished /\ inv.databaseUrl = "") => (inv.results = <<>> /\ inv.toolRuns = 0)

C7_Witness ==
  /\ Finished /\ CreateOrUpdate
  /\ inv.toolRuns = 1
  /\ Len(inv.results) = 1 /\ ~inv.results[1].success
  /\ inv.exit.cause = "connectError"

\* C8 as claimed: a Create or Update that ran out of time ends Failed through a
\* MigrationResult with success = false and the error thrown for a tool failure.
C8_TimeoutIsToolFailure ==
  (Finished /\ CreateOrUpdate /\ (inv.exit.cause = "timeout" \/ inv.killed)) =>
    /\ inv.outcome = "Failed"
    /\ Len(inv.results) = 1
    /\ ~inv.results[1].success
    /\ inv.error = <<"Migration failed: ">> \o inv.results[1].output

\* C8: a tool run that exceeds execSync's 10 minutes ends Failed exactly as a tool
\* failure does (a MigrationResult with success = false and return code -1, then
\* the error "Migration failed: <output>"); an invocation that exceeds the
\* function's 15 minutes is ended by Lambda and fails without a MigrationResult.
\* Neither ends Succeeded, and every waiting invocation can be timed out.
C8_TimeoutFails ==
  /\ (Finished /\ CreateOrUpdate /\ inv.exit.cause = "timeout") =>
       /\ inv.outcome = "Failed"
       /\ Len(inv.results) = 1
       /\ ~inv.results[1].success
       /\ inv.results[1].metadata.return_code = -1
       /\ inv.error = <<"Migration failed: ">> \o inv.results[1].output
  /\ (Finished /\ CreateOrUpdate /\ inv.killed) =>
       /\ inv.outcome = "Failed"
       /\ inv.results = <<>>
       /\ inv.error = <<"Task timed out">>
  /\ inv.elapsed <= LambdaTimeoutMinutes
  /\ inv.pc = "awaitSecret" => ENABLED LambdaTimeout
  /\ inv.pc = "execSync" =>
       \/ ENABLED LambdaTimeout
       \/ inv.elapsed + ExecTimeoutMinutes < LambdaTimeoutMinutes

C8_Witness ==
  /\ Finished /\ CreateOrUpdate
  /\ inv.exit.cause = "timeout"
  /\ inv.outcome = "Failed"
  /\ db[1] = 1

\* C9 as claimed: when diesel exits non-zero the MigrationResult has success =
\* false, its output contains the captured standard error, and the handler throws.
C9_FailureOutputHasStderr ==
  (Finished /\ CreateOrUpdate
     /\ inv.exit.cause \in {"migrationError", "connectError"}) =>
    /\ Len(inv.results) = 1
    /\ ~inv.results[1].success
    /\ Contains(inv.results[1].output, inv.stderr)
    /\ inv.outcome = "Failed"

\* C10 as claimed: a successful Create or Update returns a PhysicalResourceId and
\* Data with message, version, output and appliedMigrationCount.
C10_DataHasAppliedMigrationCount ==
  (Finished /\ CreateOrUpdate /\ inv.outcome = "Succeeded") =>
    /\ inv.response.PhysicalResourceId # Undefined
    /\ {"message", "version", "output", "appliedMigrationCount"}
         \subseteq DOMAIN inv.response.Data

\* C10: a successful Create or Update returns a PhysicalResourceId and Data with
\* exactly message, version, output, migration_count and return_code; the count of
\* migration directories is under migration_count.
C10_DataFields ==
  (Finished /\ CreateOrUpdate /\ inv.outcome = "Succeeded") =>
    /\ inv.response.PhysicalResourceId = inv.context.logStreamName
    /\ DOMAIN inv.response.Data =
         {"message", "version", "output", "migration_count", "return_code"}
    /\ inv.response.Data.message = "Migrations completed successfully"
    /\ inv.response.Data.output = inv.stdout
    /\ inv.response.Data.migration_count = Cardinality(MigrationDirs(inv.image.version))
    /\ inv.response.Data.return_code = 0

C10_Witness ==
  /\ Finished /\ inv.event.RequestType = "Create"
  /\ inv.outcome = "Succeeded"
  /\ inv.image.version = 2
  /\ inv.response.Data.migration_count = 2

\* C11 as claimed: an Update returns the PhysicalResourceId its event carried, and a
\* Delete that carries a prior id returns that id.
C11_PhysicalIdStable ==
  (/\ Finished
   /\ inv.outcome = "Succeeded"
   /\ inv.event.RequestType \in {"Update", "Delete"}
   /\ inv.event.PhysicalResourceId # Undefined)
  => inv.response.PhysicalResourceId = inv.event.PhysicalResourceId

\* the secret lacks one of host, port, username, password, dbname
LacksField(secret) == secret.kind = "json" /\ DOMAIN secret.value # SecretFields

\* C18 as claimed: when the secret is missing, empty, or lacks one of host, port,
\* username, password or dbname, a Create or Update fails while resolving the
\* credentials: no database URL is built and the tool is not invoked.
C18_BadSecretFailsBeforeTool ==
  (/\ CreateOrUpdate
   /\ inv.credReads = 1
   /\ inv.pc # "awaitSecret"
   /\ ~inv.killed
   /\ inv.secret.kind \in {"missing", "empty"} \/ LacksField(inv.secret))
  => /\ Finished
     /\ inv.outcome = "Failed"
     /\ inv.databaseUrl = ""
     /\ inv.toolRuns = 0
     /\ inv.results = <<>>

\* C19: a Create or Update on an image without the migrations directory never runs
\* the tool and leaves the tracking table as it was; once the credentials are
\* resolved it yields the MigrationResult {success: false, "Migrations directory
\* not found"} and ends Failed with that message thrown.
C19_MissingMigrationsDirFails ==
  (CreateOrUpdate /\ ~inv.image.migrations) =>
    /\ inv.toolRuns = 0
    /\ inv.exit = NoExit
    /\ db = inv.dbBefore
    /\ inv.outcome # "Succeeded"
    /\ inv.databaseUrl # "" =>
         /\ Finished
         /\ inv.outcome = "Failed"
         /\ Len(inv.results) = 1
         /\ ~inv.results[1].success
         /\ inv.results[1].output = <<"Migrations directory not found">>
         /\ inv.error = <<"Migration failed: ", "Migrations directory not found">>

C19_Witness ==
  /\ Finished /\ CreateOrUpdate
  /\ ~inv.image.migrations
  /\ inv.databaseUrl = "postgresql://u:p@db:5432/hs"
  /\ Len(inv.results) = 1
  /\ inv.outcome = "Failed"
  /\ db[1] = 1

\* C20 as claimed: a Create or Update with DB_SECRET_ARN or HYPERSWITCH_VERSION
\* absent ends Failed without invoking the tool.
C20_BothEnvInputsRequired ==
  (/\ Finished /\ CreateOrUpdate
   /\ inv.env.DB_SECRET_ARN = "" \/ inv.env.HYPERSWITCH_VERSION = "")
  => (inv.outcome = "Failed" /\ inv.toolRuns = 0)

\* C20: a Create or Update with DB_SECRET_ARN absent ends at once in the error
\* "DB_SECRET_ARN environment variable not set", without reading a secret, running
\* the tool or touching the database, whether or not HYPERSWITCH_VERSION is set; an
\* absent HYPERSWITCH_VERSION is no error: the response of a successful run reports
\* the version "unknown", and the variable's value otherwise.
C20_SecretArnRequiredVersionDefaults ==
  CreateOrUpdate =>
    /\ inv.env.DB_SECRET_ARN = "" =>
         /\ Finished
         /\ inv.outcome = "Failed"
         /\ inv.error = <<"DB_SECRET_ARN environment variable not set">>
         /\ inv.credReads = 0
         /\ inv.toolRuns = 0
         /\ inv.results = <<>>
         /\ db = inv.dbBefore
    /\ inv.outcome = "Succeeded" =>
         inv.response.Data.version =
           (IF inv.env.HYPERSWITCH_VERSION = "" THEN "unknown"
            ELSE inv.env.HYPERSWITCH_VERSION)

C20_Witness ==
  /\ Finished /\ CreateOrUpdate
  /\ inv.env = [DB_SECRET_ARN |-> "", HYPERSWITCH_VERSION |-> "v1.119.0"]
  /\ inv.secret = [kind |-> "json", value |-> fullSecret]
  /\ inv.image.migrations /\ inv.image.dieselToml
  /\ inv.outcome = "Failed"

\* the ParamStore.create calls recorded so far
Created == {s \in paramStores : s.kind = "create"}

\* the segment holds the separator
HasSeparator(segment) == \E i \in 1..Len(segment) : SubSeq(segment, i, i) = "/"

NonEmptySegments(params) == \A i \in 1..Len(params) : params[i] # ""

SeparatorFree(params) == \A i \in 1..Len(params) : ~HasSeparator(params[i])

\* C12 as claimed: two calls with distinct sequences of non-empty segments build
\* distinct paths, also when a segment holds the separator.
C12_PathInjective ==
  \A a, b \in Created :
    (NonEmptySegments(a.args) /\ NonEmptySegments(b.args) /\ a.args # b.args)
    => a.paths # b.paths

\* C12: for segments that do not hold the separator, two calls build the same path
\* exactly when their segment sequences are equal after the empty segments are
\* dropped; so distinct sequences of non-empty segments build distinct paths.
C12_PathInjectiveWithoutSeparator ==
  \A a, b \in Created :
    (SeparatorFree(a.args) /\ SeparatorFree(b.args)) =>
      /\ (a.paths = b.paths) <=>
           (SelectSeq(a.args, LAMBDA key : key # "")
              = SelectSeq(b.args, LAMBDA key : key # ""))
      /\ (NonEmptySegments(a.args) /\ NonEmptySegments(b.args) /\ a.args # b.args)
         => a.paths # b.paths

C12_Witness ==
  /\ [ kind |-> "create", args |-> <<"juspaydotin", "hyperswitch-migration2">>,
       paths |-> {"/ashanti/juspaydotin/hyperswitch-migration2"} ] \in paramStores
  /\ [ kind |-> "create", args |-> <<"hyperswitch-migration2", "juspaydotin">>,
       paths |-> {"/ashanti/hyperswitch-migration2/juspaydotin"} ] \in paramStores

\* C13 as claimed: attribute sets of different resource kinds never hold the same
\* path, whatever the instance names are.
C13_KindsShareNoPath ==
  \A a, b \in paramStores :
    (a.kind # "create" /\ b.kind # "create" /\ a.kind # b.kind)
    => a.paths \cap b.paths = {}

\* FromSSM has returned (the props passed the type check)
Imported == importedVpc.pc \in {"synthesized", "deployed", "failed"}

\* the optional attributes of the imported VPC, each with its include flag and its path
OptionalAttributes ==
  LET P == VpcParamStore IN
  { [attribute |-> "vpcCidrBlock", flag |-> "includeVpcCidr", path |-> P.SSM_VPC_CIDR_PARAM],
    [attribute |-> "privateSubnetIds", flag |-> "includePrivateSubnets",
     path |-> P.SSM_VPC_PRIVATE_SUBNET_IDS_PARAM],
    [attribute |-> "privateSubnetRouteTableIds", flag |-> "includePrivateSubnetRouteTables",
     path |-> P.SSM_VPC_PRIVATE_SUBNET_ROUTE_TABLE_IDS_PARAM],
    [attribute |-> "privateSubnetIpv4CidrBlocks", flag |-> "includePrivateSubnetCidrs",
     path |-> P.SSM_VPC_PRIVATE_SUBNET_IPV4_CIDR_BLOCKS_PARAM],
    [attribute |-> "publicSubnetIds", flag |-> "includePublicSubnets",
     path |-> P.SSM_VPC_PUBLIC_SUBNET_IDS_PARAM],
    [attribute |-> "publicSubnetRouteTableIds", flag |-> "includePublicSubnetRouteTables",
     path |-> P.SSM_VPC_PUBLIC_SUBNET_ROUTE_TABLE_IDS_PARAM],
    [attribute |-> "publicSubnetIpv4CidrBlocks", flag |-> "includePublicSubnetCidrs",
     path |-> P.SSM_VPC_PUBLIC_SUBNET_IPV4_CIDR_BLOCKS_PARAM],
    [attribute |-> "isolatedSubnetIds", flag |-> "includeIsolatedSubnets",
     path |-> P.SSM_VPC_ISOLATED_SUBNET_IDS_PARAM],
    [attribute |-> "isolatedSubnetRouteTableIds", flag |-> "includeIsolatedSubnetRouteTables",
     path |-> P.SSM_VPC_ISOLATED_SUBNET_ROUTE_TABLE_IDS_PARAM],
    [attribute |-> "isolatedSubnetIpv4CidrBlocks", flag |-> "includeIsolatedSubnetCidrs",
     path |-> P.SSM_VPC_ISOLATED_SUBNET_IPV4_CIDR_BLOCKS_PARAM] }

FlagOff(props, flag) == flag \in DOMAIN props /\ props[flag] = FALSE

\* the paths the references of an attribute value point to
RefPaths(value) == {value.refs[i].path : i \in 1..Len(value.refs)}

\* C14: for every optional attribute whose include flag is false, FromSSM reads no
\* parameter at the attribute's path and the attribute is undefined in the imported
\* attributes (and stays so at deployment); every attribute whose flag is not false
\* is defined and resolved from its own path only, which is among the reads.
C14_SelectiveImport ==
  Imported =>
    \A o \in OptionalAttributes :
      LET value == importedVpc.attributes[o.attribute] IN
      IF FlagOff(importedVpc.props, o.flag) THEN
        /\ o.path \notin importedVpc.reads
        /\ ~value.defined
        /\ value.refs = <<>>
        /\ \A a \in DOMAIN importedVpc.attributes :
             o.path \notin RefPaths(importedVpc.attributes[a])
        /\ importedVpc.pc = "deployed" => ~importedVpc.resolved[o.attribute].defined
      ELSE
        /\ value.defined
        /\ o.path \in importedVpc.reads
        /\ RefPaths(value) \subseteq {o.path}
        /\ importedVpc.pc = "deployed" => importedVpc.resolved[o.attribute].defined

C14_Witness ==
  /\ importedVpc.pc = "deployed"
  /\ importedVpc.props = vpcImportProps
  /\ importedVpc.attributes.publicSubnetIds.defined
  /\ ~importedVpc.attributes.privateSubnetIds.defined

AllFlagsOff(props) == \A flag \in IncludeFlags : FlagOff(props, flag)

DefinedAttributes ==
  {a \in DOMAIN importedVpc.attributes : importedVpc.attributes[a].defined}

\* C15 as claimed: an import with every include flag false reads nothing and returns
\* no attribute.
C15_EmptyImportReadsNothing ==
  (Imported /\ AllFlagsOff(importedVpc.props)) =>
    /\ importedVpc.reads = {}
    /\ DefinedAttributes = {}

\* C15: an import with every include flag false reads exactly the two required
\* parameters, the VPC id and the availability zones, and returns exactly the
\* attributes vpcId and availabilityZones, the latter with maxAzs elements; it
\* fails at deployment when those parameters do not exist.
C15_EmptyImportReadsRequiredOnly ==
  (Imported /\ AllFlagsOff(importedVpc.props)) =>
    /\ importedVpc.reads = {VpcParamStore.SSM_VPC_ID_PARAM, VpcParamStore.SSM_VPC_AZS_PARAM}
    /\ DefinedAttributes = {"vpcId", "availabilityZones"}
    /\ RefPaths(importedVpc.attributes.vpcId) = {VpcParamStore.SSM_VPC_ID_PARAM}
    /\ RefPaths(importedVpc.attributes.availabilityZones) = {VpcParamStore.SSM_VPC_AZS_PARAM}
    /\ Len(importedVpc.attributes.availabilityZones.refs) = propsMaxAzs(importedVpc.props)
    /\ (importedVpc.pc # "synthesized" /\ ~importedVpc.ssm.exists) => importedVpc.pc = "failed"

C15_Witness ==
  /\ importedVpc.pc = "failed"
  /\ AllFlagsOff(importedVpc.props)
  /\ ~importedVpc.ssm.exists
  /\ importedVpc.reads # {}

\* the props hold a key ImportedVpcProps does not declare
HasUnknownKey(props) == DOMAIN props \ ImportedVpcProps # {}

KnownProps(props) == [k \in DOMAIN props \cap ImportedVpcProps |-> props[k]]

\* C16 as claimed: a call with an unknown attribute key always fails on the unknown
\* key, never on an unresolved parameter.
C16_UnknownKeyAlwaysRejected ==
  (importedVpc.pc # "none" /\ HasUnknownKey(importedVpc.props)) =>
    /\ importedVpc.pc = "typeError"
    /\ importedVpc.error # "Unable to fetch parameters from parameter store"

\* C16: a key that ImportedVpcProps does not declare is rejected only by the type
\* check of a type-checked object literal, before anything is read. FromSSM itself
\* ignores the key: it reads and returns what it does for the props without the
\* key, and when the parameters do not exist the deployment fails on the
\* unresolved parameter.
C16_UnknownKeyIgnoredAtRunTime ==
  (importedVpc.pc # "none" /\ HasUnknownKey(importedVpc.props)) =>
    IF importedVpc.typeChecked THEN
      /\ importedVpc.pc = "typeError"
      /\ importedVpc.reads = {}
      /\ importedVpc.attributes = EmptyRecord
    ELSE
      /\ Imported
      /\ importedVpc.reads = FromSSM(KnownProps(importedVpc.props))
      /\ importedVpc.attributes = fromVpcAttributes(KnownProps(importedVpc.props))
      /\ (importedVpc.pc # "synthesized" /\ ~importedVpc.ssm.exists) =>
           /\ importedVpc.pc = "failed"
           /\ importedVpc.error = "Unable to fetch parameters from parameter store"

C16_Witness ==
  /\ importedVpc.pc = "failed"
  /\ HasUnknownKey(importedVpc.props)
  /\ ~importedVpc.typeChecked
  /\ ~importedVpc.ssm.exists
  /\ importedVpc.error = "Unable to fetch parameters from parameter store"

\* the attributes FromSSM builds with valueForTypedListParameter and Fn.select
ListAttributes ==
  {"availabilityZones"} \cup
  {o.attribute : o \in {x \in OptionalAttributes : x.attribute # "vpcCidrBlock"}}

\* C17: once the stack is deployed against existing parameters, every list attribute
\* that was imported has exactly maxAzs elements, the i-th being the element at index
\* i (0..maxAzs-1) of the stored list, in stored order; and the deployment fails
\* exactly when the stored list has fewer than maxAzs elements.
C17_ListResolvedByIndex ==
  (importedVpc.pc \in {"deployed", "failed"} /\ importedVpc.ssm.exists) =>
    LET count == propsMaxAzs(importedVpc.props)
        stored == importedVpc.ssm.stored
    IN  IF Len(stored) < count THEN
          /\ importedVpc.pc = "failed"
          /\ importedVpc.error = "Fn::Select cannot select nonexistent value"
        ELSE
          /\ importedVpc.pc = "deployed"
          /\ \A a \in ListAttributes :
               importedVpc.attributes[a].defined =>
                 /\ Len(importedVpc.resolved[a].values) = count
                 /\ \A i \in 0..(count - 1) :
                      importedVpc.resolved[a].values[i + 1] = stored[i + 1]

C17_Witness ==
  /\ importedVpc.pc = "deployed"
  /\ propsMaxAzs(importedVpc.props) = 2
  /\ Len(importedVpc.ssm.stored) = 3
  /\ importedVpc.resolved.availabilityZones.values = SubSeq(importedVpc.ssm.stored, 1, 2)
  /\ importedVpc.resolved.publicSubnetIds.defined
  /\ Len(importedVpc.resolved.publicSubnetIds.values) = 2

(***************************************************************************)
(* C21: the database URL                                                   *)
(***************************************************************************)
\* the invocation has passed the line that constructs DATABASE_URL
UrlBuilt == inv.pc = "execSync" \/ inv.results # <<>>

\* C21: whenever the runner has built its database URL from a secret that holds
\* host h, port n, username u, password p and dbname d, the URL is exactly
\* postgresql://u:p@h:n/d: the field values appear as they are stored, in that
\* order (the secret of Scenario D gives postgresql://u:p@db:5432/hs).
C21_DatabaseUrlExact ==
  (/\ UrlBuilt
   /\ inv.secret.kind = "json"
   /\ DOMAIN inv.secret.value = SecretFields)
  => LET s == inv.secret.value IN
     /\ inv.databaseUrl =
          "postgresql://" \o s.username \o ":" \o s.password \o "@" \o s.host
            \o ":" \o ToString(s.port) \o "/" \o s.dbname
     /\ s = fullSecret => inv.databaseUrl = "postgresql://u:p@db:5432/hs"
     /\ s = otherSecret =>
          inv.databaseUrl = "postgresql://admin:p@ss/w:rd@db-2.internal:6432/hyperswitch_db"

\* diesel runs with the URL built from a secret whose values hold '@', '/' and ':'
C21_Witness ==
  /\ inv.pc = "execSync"
  /\ inv.secret = [kind |-> "json", value |-> otherSecret]
  /\ inv.databaseUrl = "postgresql://admin:p@ss/w:rd@db-2.internal:6432/hyperswitch_db"

(***************************************************************************)
(* C22: the root namespace of the paths                                    *)
(***************************************************************************)
\* the text between the leading '/' of a path and its next '/'
FirstSegment(path) ==
  LET ends == {i \in 2..Len(path) : SubSeq(path, i, i) = "/"}
      e == IF ends = {} THEN Len(path) + 1
           ELSE CHOOSE i \in ends : \A j \in ends : i <= j
  IN  SubSeq(path, 2, e - 1)

\* a '/' of the path is followed by another '/' or by nothing
HasEmptySegment(path) ==
  \E i \in 1..Len(path) :
    /\ SubSeq(path, i, i) = "/"
    /\ i = Len(path) \/ SubSeq(path, i + 1, i + 1) = "/"

\* a key that, once joined, leaves an empty segment: it starts or ends with '/', or
\* holds '//'
KeyHoldsEmptySegment(key) ==
  key # "" /\ (SubSeq(key, 1, 1) = "/" \/ HasEmptySegment(key))

UnderNamespace(path) == SubSeq(path, 1, 1) = "/" /\ FirstSegment(path) = "ashanti"

\* C22 as claimed: every path of every attribute set, the customer-sync set
\* included, has the root namespace as its first segment and no empty segment
\* (taken for instance names that hold no empty segment themselves).
C22_EveryPathUnderNamespace ==
  \A s \in paramStores : \A p \in s.paths :
    (\A i \in 1..Len(s.args) : ~KeyHoldsEmptySegment(s.args[i]))
    => UnderNamespace(p) /\ ~HasEmptySegment(p)

\* C22: every path built by ParamStore.create or createWithEnv, directly or by an
\* attribute set, has the root namespace 'ashanti' as its first segment, and has
\* no empty segment unless a key handed in holds one itself. The customer-sync
\* path is not under the namespace: it is rooted at 'customer-sync', and it keeps
\* an empty tenant code or source as an empty segment.
C22_CreatedPathsUnderNamespace ==
  \A s \in paramStores : \A p \in s.paths :
    IF s.kind = "customerSync"
    THEN /\ ~UnderNamespace(p)
         /\ FirstSegment(p) = "customer-sync"
         /\ HasEmptySegment(p) <=> (s.args[1] = "" \/ s.args[2] = "")
    ELSE /\ UnderNamespace(p)
         /\ (\A i \in 1..Len(s.args) : ~KeyHoldsEmptySegment(s.args[i]))
            => ~HasEmptySegment(p)

\* a customer-sync set next to an attribute set built on an empty instance name
C22_Witness ==
  /\ [ kind |-> "customerSync", args |-> <<"acme", "erp">>,
       paths |-> {"/customer-sync/acme/erp/mariadb"} ] \in paramStores
  /\ [ kind |-> "ecr", args |-> <<"">>,
       paths |-> {"/ashanti/ecr/uri", "/ashanti/ecr/arn", "/ashanti/ecr/name"} ]
       \in paramStores

(***************************************************************************)
(* C23: manual execution                                                   *)
(***************************************************************************)
\* C23 as claimed: a handler invoked by hand with RequestType "Direct", with the
\* secret reference set, a complete secret and a complete image, runs the
\* migration tool and ends with a result that describes the run: a response
\* with its data, or the error of the failed run.
C23_DirectRunsMigrations ==
  (/\ Finished
   /\ inv.source = "manual"
   /\ inv.event.RequestType = "Direct"
   /\ inv.env.DB_SECRET_ARN # ""
   /\ inv.secret.kind = "json" /\ inv.secret.value \in FullSecrets
   /\ inv.image.migrations /\ inv.image.dieselToml
   /\ ~inv.killed)
  => /\ inv.credReads = 1
     /\ inv.toolRuns = 1
     /\ Len(inv.results) = 1
     /\ \/ inv.outcome = "Succeeded" /\ "message" \in DOMAIN inv.response.Data
        \/ inv.outcome = "Failed" /\ inv.error # <<>>

(***************************************************************************)
(* C25, C26, C28: the MigrationResult of a tool run                        *)
(***************************************************************************)
\* execSync has returned or thrown in this invocation
ToolEnded == inv.exit.cause # "none"

\* C25: the result of runMigrations reports success exactly when the tool ran and
\* exited with status zero: a non-zero exit status, a kill by a signal and the
\* execSync timeout all give success = false, and so do the results returned
\* before the tool is started.
C25_SuccessIffExitZero ==
  /\ \A k \in 1..Len(inv.results) :
       inv.results[k].success <=>
         (ToolEnded /\ ~inv.exit.signaled /\ inv.exit.status = 0)
  /\ (ToolEnded /\ ~inv.killed) =>
       /\ Len(inv.results) = 1
       /\ inv.exit.cause = "ok" => inv.results[1].success
       /\ inv.exit.cause \in {"migrationError", "connectError", "signal", "timeout"}
          => ~inv.results[1].success

\* a run the tool ended by a signal with every migration applied
C25_Witness ==
  /\ Finished /\ CreateOrUpdate
  /\ inv.exit.cause = "signal"
  /\ AtVersion(db, inv.image)
  /\ ~AtVersion(inv.dbBefore, inv.image)
  /\ Len(inv.results) = 1 /\ ~inv.results[1].success
  /\ inv.outcome = "Failed"

\* C26: whenever the tool was run, the migration_count of the MigrationResult is
\* the number of migration directories the image holds, for a successful and for
\* a failed run alike and whatever the tracking table held before the run; a
\* successful response carries the same number.
C26_CountIsLocalDirectories ==
  (ToolEnded /\ ~inv.killed) =>
    /\ Len(inv.results) = 1
    /\ inv.results[1].metadata.migration_count
         = Cardinality(MigrationDirs(inv.image.version))
    /\ inv.outcome = "Succeeded" =>
         inv.response.Data.migration_count = Cardinality(MigrationDirs(inv.image.version))

\* a successful second run against the same image: nothing was pending, and the
\* count is still the number of directories
C26_Witness ==
  /\ Finished /\ CreateOrUpdate
  /\ inv.image.version = MaxVersion
  /\ AtVersion(inv.dbBefore, inv.image)
  /\ db = inv.dbBefore
  /\ inv.outcome = "Succeeded"
  /\ inv.response.Data.migration_count = MaxVersion

\* C28: in every MigrationResult that carries metadata, success is true exactly
\* when return_code is 0: a successful run reports 0, a failed run reports the
\* exit status of the tool, and -1 when the tool was ended by a signal or by the
\* execSync timeout and so has no exit status.
C28_SuccessIffReturnCodeZero ==
  \A k \in 1..Len(inv.results) :
    LET result == inv.results[k] IN
    result.metadata # EmptyRecord =>
      /\ result.success <=> (result.metadata.return_code = 0)
      /\ result.success => inv.exit.cause = "ok"
      /\ ~result.success =>
           result.metadata.return_code =
             (IF inv.exit.signaled THEN -1 ELSE inv.exit.status)

\* a run ended by the execSync timeout: no exit status, and return_code -1
C28_Witness ==
  /\ Finished /\ CreateOrUpdate
  /\ inv.exit.cause = "timeout"
  /\ Len(inv.results) = 1
  /\ ~inv.results[1].success
  /\ inv.results[1].metadata.return_code = -1

(***************************************************************************)
(* C29: the subnet tiers a stack uses                                      *)
(***************************************************************************)
\* C29 as claimed: every stack whose constructor has run asked only for subnet
\* tiers whose subnet ids its ImportedVpc.FromSSM call imported: the tier of
\* rds.subnetType for the database, and for the migration function when useVpc.
C29_UsedSubnetTiersImported ==
  \A s \in Stacks :
    stackStatus[s] # "pending" =>
      \A subnetType \in vpcSubnets(s, config) :
        includeFlag(vpcImportProps, subnetFlag(subnetType))


\* the keys handed to the path builder by a recorded create or createWithEnv call
BuilderKeys(s) == <<"ashanti">> \o s.args

BuilderCalls == {s \in paramStores : s.kind \in {"create", "createWithEnv"}}

\* the non-empty keys of a list, in their order
RECURSIVE NonEmptyKeys(_)
NonEmptyKeys(keys) ==
  IF keys = <<>> THEN <<>>
  ELSE IF Head(keys) = "" THEN NonEmptyKeys(Tail(keys))
  ELSE <<Head(keys)>> \o NonEmptyKeys(Tail(keys))

\* the path spelled out key by key: every non-empty key preceded by a '/', except
\* that the first one follows the leading '/'
RECURSIVE Spelled(_)
Spelled(kept) ==
  IF kept = <<>> THEN ""
  ELSE IF Len(kept) = 1 THEN kept[1]
  ELSE kept[1] \o "/" \o Spelled(Tail(kept))

\* b is a with one empty key inserted at position i
InsertsEmptyKey(a, b) ==
  /\ Len(b) = Len(a) + 1
  /\ \E i \in 1..Len(b) :
       /\ b[i] = ""
       /\ SubSeq(b, 1, i - 1) = SubSeq(a, 1, i - 1)
       /\ SubSeq(b, i + 1, Len(b)) = SubSeq(a, i, Len(a))

\* C27: the path builder returns '/' followed by the non-empty keys in their order,
\* joined by '/'; a call whose keys are those of another call with an empty key
\* inserted anywhere, or with any number of empty keys more, builds the same path.
C27_PathIsNonEmptyKeysJoined ==
  /\ \A s \in BuilderCalls :
       s.paths = {"/" \o Spelled(NonEmptyKeys(BuilderKeys(s)))}
  /\ \A a, b \in BuilderCalls :
       (\/ InsertsEmptyKey(BuilderKeys(a), BuilderKeys(b))
        \/ NonEmptyKeys(BuilderKeys(a)) = NonEmptyKeys(BuilderKeys(b)))
       => a.paths = b.paths

C27_Witness ==
  /\ [ kind |-> "create", args |-> <<"juspaydotin">>,
       paths |-> {"/ashanti/juspaydotin"} ] \in paramStores
  /\ [ kind |-> "create", args |-> <<"", "juspaydotin">>,
       paths |-> {"/ashanti/juspaydotin"} ] \in paramStores


\* the kinds whose attribute sets are built from instance names
NamedKinds ==
  { "rdsInstance", "rdsCluster", "elasticache", "ecr", "lambda", "batch", "hostedZone",
    "certificate", "certificateAuthority", "customerSync", "storage" }

\* instance names as the stacks give them: not empty and without the path separator
ProperNames(args) == NonEmptySegments(args) /\ SeparatorFree(args)

\* C30: within one resource kind, the attribute sets of two distinct instance names
\* share no path; in particular the certificate attribute sets of two distinct
\* domain names share none after the wildcard replacement and capitalize.
C30_DistinctNamesShareNoPath ==
  \A a, b \in paramStores :
    ( /\ a.kind \in NamedKinds
      /\ a.kind = b.kind
      /\ ProperNames(a.args) /\ ProperNames(b.args)
      /\ a.args # b.args )
    => a.paths \cap b.paths = {}


\* the diesel processes running against the database
ToolProcesses ==
  (IF inv.pc = "execSync" THEN 1 ELSE 0) + (IF orphan.pc = "execSync" THEN 1 ELSE 0)

\* C24: over all interleavings of trigger invocations, re-invocation after a
\* cancelled deployment included, at most one migration tool process runs against
\* the database at any time.
C24_NoParallelMigration == ToolProcesses <= 1

====
